---- MODULE Spec2Model ----
(***************************************************************************)
(* A model of the classification, site-detection and deletion-planning     *)
(* code of walscan (blob-classifier.ts, site-detector.ts,                  *)
(* deletion-manager.ts, walrus-client.ts).                                 *)
(*                                                                         *)
(* Conventions.  A JavaScript string or Buffer is a sequence of            *)
(* one-character strings, so that includes / startsWith / endsWith are     *)
(* computed character by character.  An optional number is Undefined when  *)
(* the field is absent; an optional string is the empty sequence; an       *)
(* optional boolean is one of "true", "false", "undefined"; an optional    *)
(* object is a sequence of length 0 or 1.                                  *)
(***************************************************************************)
EXTENDS Integers, Sequences, FiniteSets, TLC

VARIABLES
  pc,               \* which operation has run: "idle", then the operation's name
  now,              \* the wall clock at the first reading of an operation, in ticks
  store,            \* the storage network: blob id -> <<>> or <<content>>
  blobs,            \* the BlobInfo[] handed to the classifier or the planner
  options,          \* the DeletionOptions handed to createDeletionPlan
  fates,            \* what the network did to each blob's requests during the operation
  classifications,  \* the BlobClassification[] the classifier returned
  plan,             \* <<>> or <<the DeletionPlan returned>>
  siteContent,      \* <<>> or <<the Buffer handed to detectWalrusSite or to detectContentType>>
  detection,        \* <<>> or <<the SiteDetectionResult returned>>
  targetList,       \* the BlobClassification[] handed to generateWarnings
  warnings,         \* the warnings generateWarnings returned
  declaredType,     \* the declared type handed to a categorizer or to the sniffer
  categorized,      \* <<>> or <<the BlobCategory categorizeFromContentType returned>>
  detectedType,     \* <<>> or <<the content type detectContentType returned>>
  chain,            \* <<>> or <<what the chain holds for the scanned wallet: its blob objects and its sites>>
  cli,              \* <<>> or <<the options of the cleanup command>>
  run,              \* <<>> or <<the locals of the running cleanup command and the calls it made>>
  analysis,         \* <<>> or <<the CleanupAnalysis returned by analyzeStorageCleanup>>
  attempts,         \* what the caller and the network answered for each target of executeDeletionPlan or deleteBlobSafely
  result,           \* <<>> or <<the DeletionResult returned by executeDeletionPlan>>
  returned,         \* <<>> or <<the boolean returned by deleteBlobSafely>>
  calls,            \* <<>> or <<the blob ids handed, in order, to deleteBlobSafely and to walrusClient.deleteBlob>>
  summary           \* <<>> or <<the WalletBlobSummary returned by getWalletBlobSummaryFromBlobs>>

vars == <<pc, now, store, blobs, options, fates, classifications, plan, siteContent, detection,
          targetList, warnings, declaredType, categorized, detectedType,
          chain, cli, run, analysis, attempts, result, returned, calls, summary>>

-----------------------------------------------------------------------------
(* Bounds of the model. *)

\* Ticks of the clock per day (the code counts 86400000 ms per day).
TicksPerDay == 2
\* The day on which the operations run, in days since the epoch of Date.
Today == 1000
\* Blobs of a batch that are drawn freely; the rest of a batch is filler.
MaxVaried == 2

-----------------------------------------------------------------------------
(* Strings. *)

StartsWith(s, p) == Len(p) <= Len(s) /\ SubSeq(s, 1, Len(p)) = p

EndsWith(s, p) == Len(p) <= Len(s) /\ SubSeq(s, Len(s) - Len(p) + 1, Len(s)) = p

Includes(s, p) == \E i \in 1..(Len(s) - Len(p) + 1) : SubSeq(s, i, i + Len(p) - 1) = p

UpperCase == <<"A","B","C","D","E","F","G","H","I","J","K","L","M","N","O","P","Q","R","S","T","U","V","W","X","Y","Z">>

LowerCase == <<"a","b","c","d","e","f","g","h","i","j","k","l","m","n","o","p","q","r","s","t","u","v","w","x","y","z">>

ToLowerChar(c) ==
  IF \E i \in 1..Len(UpperCase) : UpperCase[i] = c
  THEN LowerCase[CHOOSE i \in 1..Len(UpperCase) : UpperCase[i] = c]
  ELSE c

ToLowerCase(s) == [i \in 1..Len(s) |-> ToLowerChar(s[i])]

\* Buffer.subarray(0, n) and toString('utf8', 0, n)
Prefix(s, n) == SubSeq(s, 1, IF Len(s) < n THEN Len(s) ELSE n)

s_index_html == <<"i","n","d","e","x",".","h","t","m","l">>
s_slash_index_html == <<"/">> \o s_index_html
s_headers == <<"_","h","e","a","d","e","r","s">>
s_slash_headers == <<"/">> \o s_headers
s_text_html == <<"t","e","x","t","/","h","t","m","l">>
s_application_zip == <<"a","p","p","l","i","c","a","t","i","o","n","/","z","i","p">>
s_site == <<"s","i","t","e">>
s_image == <<"i","m","a","g","e","/">>
s_video == <<"v","i","d","e","o","/">>
s_audio == <<"a","u","d","i","o","/">>
s_pdf == <<"p","d","f">>
s_document == <<"d","o","c","u","m","e","n","t">>
s_text == <<"t","e","x","t","/">>
s_msword == <<"a","p","p","l","i","c","a","t","i","o","n","/","m","s","w","o","r","d">>
s_openxml == <<"a","p","p","l","i","c","a","t","i","o","n","/","v","n","d",".","o","p","e","n","x","m","l","f","o","r","m","a","t","s">>
s_zip == <<"z","i","p">>
s_tar == <<"t","a","r">>
s_rar == <<"r","a","r">>
s_7z == <<"7","z">>
s_gzip == <<"g","z","i","p">>
s_javascript == <<"j","a","v","a","s","c","r","i","p","t">>
s_typescript == <<"t","y","p","e","s","c","r","i","p","t">>
s_python == <<"p","y","t","h","o","n">>
s_json == <<"j","s","o","n">>
s_xml == <<"x","m","l">>
s_application == <<"a","p","p","l","i","c","a","t","i","o","n","/">>
s_binary == <<"b","i","n","a","r","y">>
s_doctype_html == <<"<","!","D","O","C","T","Y","P","E"," ","h","t","m","l">>
s_html_tag == <<"<","h","t","m","l">>
s_doctype == <<"<","!","D","O","C","T","Y","P","E">>
s_pdf_magic == <<"%","P","D","F">>
s_lt == <<"<">>
s_gt == <<">">>
s_close == <<"<","/">>

-----------------------------------------------------------------------------
(* Types. *)

\* An absent optional number (size?, createdEpoch?, storageRebate?).
Undefined == -1

\* JavaScript truthiness of an optional number: undefined and 0 are falsy.
Truthy(n) == n # Undefined /\ n # 0

\* x || 0
OrZero(n) == IF Truthy(n) THEN n ELSE 0

BlobCategory == <<"website", "image", "document", "archive", "video", "audio", "data", "code", "unknown">>

Categories == {BlobCategory[i] : i \in 1..Len(BlobCategory)}

BlobImportance == {"critical", "important", "normal", "low", "disposable"}

-----------------------------------------------------------------------------
(* The site detector (site-detector.ts).                                   *)
(*                                                                         *)
(* A content is [bytes, zip, entries, json, mentions]: the bytes of the    *)
(* blob; whether JSZip.loadAsync accepts them and, if so, the archive's    *)
(* entries in order, each [path, dir, readable] (readable: its data        *)
(* decompresses); whether the leading text parses as JSON; and the matches *)
(* of the blob-id pattern in the text, in order.  JSZip gives every        *)
(* directory entry a path that ends in "/".                                *)

IsIndexPath(path) == path = s_index_html \/ EndsWith(path, s_slash_index_html)

IsHeadersPath(path) == path = s_headers \/ EndsWith(path, s_slash_headers)

isZipBasedSite(content) ==
  /\ content.zip
  /\ \E i \in 1..Len(content.entries) :
       \/ EndsWith(content.entries[i].path, s_index_html)
       \/ content.entries[i].path = s_index_html

\* <<>> is null, <<site>> a WalrusSite.  The name (title) and the parsed
\* headers of the site are not modelled; reading them can fail, which is.
analyzeZipSite(content, blobId) ==
  LET files == SelectSeq(content.entries, LAMBDA e : ~e.dir)
      hasIndexHtml == \E i \in 1..Len(files) : IsIndexPath(files[i].path)
      thrown ==
        \/ ~content.zip
        \/ \E i \in 1..Len(files) :
             /\ IsIndexPath(files[i].path) \/ IsHeadersPath(files[i].path)
             /\ ~files[i].readable
      resources == [i \in 1..Len(files) |-> [path |-> files[i].path, blobId |-> blobId]]
  IN  IF thrown THEN <<>>
      ELSE IF ~hasIndexHtml /\ Len(resources) = 0 THEN <<>>
      ELSE << [objectId |-> <<>>,
               blobId |-> blobId,
               domain |-> <<>>,
               hasIndexHtml |-> hasIndexHtml,
               resources |-> resources,
               isFileDirectory |-> ~hasIndexHtml /\ Len(resources) > 0] >>

isSinglePageSite(content) ==
  \/ Includes(content.bytes, s_doctype_html)
  \/ Includes(content.bytes, s_html_tag)
  \/ /\ Includes(content.bytes, s_lt)
     /\ Includes(content.bytes, s_gt)
     /\ Includes(content.bytes, s_close)

\* Mutant: the descriptor of a single page carries a domain.
analyzeSinglePageSite_withDomain(content, blobId) ==
  [objectId |-> <<>>,
   blobId |-> blobId,
   domain |-> <<"e","x","a","m","p","l","e",".","s","u","i">>,
   hasIndexHtml |-> TRUE,
   resources |-> << [path |-> s_index_html, blobId |-> blobId] >>,
   isFileDirectory |-> FALSE]

analyzeSinglePageSite(content, blobId) ==
  [objectId |-> <<>>,
   blobId |-> blobId,
   domain |-> <<>>,
   hasIndexHtml |-> TRUE,
   resources |-> << [path |-> s_index_html, blobId |-> blobId] >>,
   isFileDirectory |-> FALSE]

NotASite == [isWalrusSite |-> FALSE, siteInfo |-> <<>>]

detectWalrusSite(content, blobId) ==
  IF isZipBasedSite(content)
  THEN LET siteInfo == analyzeZipSite(content, blobId)
       IN  IF siteInfo # <<>>
           THEN [isWalrusSite |-> TRUE, siteInfo |-> siteInfo]
           ELSE NotASite
  ELSE IF isSinglePageSite(content)
  THEN [isWalrusSite |-> TRUE, siteInfo |-> <<analyzeSinglePageSite(content, blobId)>>]
  ELSE NotASite

-----------------------------------------------------------------------------
(* The content sniffer of the blob reader (blob-reader.ts). *)

\* Bytes of the buffer the sniffer takes as the signature, and bytes it
\* samples to tell text.
SnifferSignatureLen == 16
TextSampleLen == 1024

s_octet_stream == <<"a","p","p","l","i","c","a","t","i","o","n","/","o","c","t","e","t","-","s","t","r","e","a","m">>
s_application_json == <<"a","p","p","l","i","c","a","t","i","o","n","/","j","s","o","n">>
s_text_plain == <<"t","e","x","t","/","p","l","a","i","n">>
s_PK == <<"P","K">>

\* byte < 32 && byte !== 9 && byte !== 10 && byte !== 13
NonTextBytes ==
  {"x00","x01","x02","x03","x04","x05","x06","x07","x08","x0B","x0C","x0E","x0F",
   "x10","x11","x12","x13","x14","x15","x16","x17","x18","x19","x1A","x1B","x1C","x1D","x1E","x1F"}

\* nonTextBytes / sample.length < 0.3, which is false of the empty sample (NaN)
isTextContent(content) ==
  LET sample == Prefix(content.bytes, TextSampleLen)
      nonTextBytes == Cardinality({i \in 1..Len(sample) : sample[i] \in NonTextBytes})
  IN  Len(sample) > 0 /\ 10 * nonTextBytes < 3 * Len(sample)

\* Mutant: the bytes are sniffed whatever type is provided.
detectContentType_sniffAlways(content, providedType) ==
  LET signature == Prefix(content.bytes, SnifferSignatureLen)
  IN  IF Includes(signature, s_doctype_html) \/ Includes(signature, s_html_tag) THEN s_text_html
      ELSE IF Includes(signature, s_PK) THEN s_application_zip
      ELSE IF content.json THEN s_application_json
      ELSE IF isTextContent(content) THEN s_text_plain
      ELSE s_octet_stream

\* content.json: JSON.parse accepts the content's text.
detectContentType(content, providedType) ==
  IF providedType # <<>> /\ providedType # s_octet_stream THEN providedType
  ELSE LET signature == Prefix(content.bytes, SnifferSignatureLen)
       IN  IF Includes(signature, s_doctype_html) \/ Includes(signature, s_html_tag) THEN s_text_html
           ELSE IF Includes(signature, s_PK) THEN s_application_zip
           ELSE IF content.json THEN s_application_json
           ELSE IF isTextContent(content) THEN s_text_plain
           ELSE s_octet_stream

-----------------------------------------------------------------------------
(* The classifier (blob-classifier.ts). *)

\* Bytes of the buffer the content categorizer takes as the signature, and
\* bytes it decodes as text.
SignatureLen == 16
TextScanLen == 512
\* Age limits, in days.
OneYear == 365
SixMonths == 180

\* Mutant: the code rule is tried before the document rule.
categorizeFromContentType_codeFirst(contentType) ==
  LET type == ToLowerCase(contentType)
  IN  IF \/ Includes(type, s_text_html)
         \/ Includes(type, s_application_zip) /\ Includes(type, s_site)
      THEN "website"
      ELSE IF StartsWith(type, s_image) THEN "image"
      ELSE IF StartsWith(type, s_video) THEN "video"
      ELSE IF StartsWith(type, s_audio) THEN "audio"
      ELSE IF \/ Includes(type, s_javascript)
              \/ Includes(type, s_typescript)
              \/ Includes(type, s_python)
              \/ Includes(type, s_json)
              \/ Includes(type, s_xml)
      THEN "code"
      ELSE IF \/ Includes(type, s_pdf)
              \/ Includes(type, s_document)
              \/ Includes(type, s_text)
              \/ Includes(type, s_msword)
              \/ Includes(type, s_openxml)
      THEN "document"
      ELSE IF \/ Includes(type, s_zip)
              \/ Includes(type, s_tar)
              \/ Includes(type, s_rar)
              \/ Includes(type, s_7z)
              \/ Includes(type, s_gzip)
      THEN "archive"
      ELSE IF Includes(type, s_application) \/ Includes(type, s_binary)
      THEN "data"
      ELSE "unknown"

categorizeFromContentType(contentType) ==
  LET type == ToLowerCase(contentType)
  IN  IF \/ Includes(type, s_text_html)
         \/ Includes(type, s_application_zip) /\ Includes(type, s_site)
      THEN "website"
      ELSE IF StartsWith(type, s_image) THEN "image"
      ELSE IF StartsWith(type, s_video) THEN "video"
      ELSE IF StartsWith(type, s_audio) THEN "audio"
      ELSE IF \/ Includes(type, s_pdf)
              \/ Includes(type, s_document)
              \/ Includes(type, s_text)
              \/ Includes(type, s_msword)
              \/ Includes(type, s_openxml)
      THEN "document"
      ELSE IF \/ Includes(type, s_zip)
              \/ Includes(type, s_tar)
              \/ Includes(type, s_rar)
              \/ Includes(type, s_7z)
              \/ Includes(type, s_gzip)
      THEN "archive"
      ELSE IF \/ Includes(type, s_javascript)
              \/ Includes(type, s_typescript)
              \/ Includes(type, s_python)
              \/ Includes(type, s_json)
              \/ Includes(type, s_xml)
      THEN "code"
      ELSE IF Includes(type, s_application) \/ Includes(type, s_binary)
      THEN "data"
      ELSE "unknown"

\* signature[0] === a && signature[1] === b
Magic(signature, a, b) == Len(signature) >= 2 /\ signature[1] = a /\ signature[2] = b

categorizeFromContent(content) ==
  LET signature == Prefix(content.bytes, SignatureLen)
      text == Prefix(content.bytes, TextScanLen)
  IN  IF Includes(signature, s_doctype_html) \/ Includes(signature, s_html_tag)
      THEN "website"
      ELSE IF Magic(signature, "P", "K") THEN "archive"
      ELSE IF Magic(signature, "xFF", "xD8") THEN "image"
      ELSE IF Magic(signature, "x89", "P") THEN "image"
      ELSE IF Magic(signature, "G", "I") THEN "image"
      ELSE IF Includes(signature, s_pdf_magic) THEN "document"
      ELSE IF content.json THEN "code"
      ELSE IF Includes(text, s_html_tag) \/ Includes(text, s_doctype) THEN "website"
      ELSE "unknown"

\* What an awaited call that throws yields; the caller's promise then rejects.
Thrown == "thrown"

\* WalrusClient.readBlob: the bytes, or <<>> when the request throws.
readBlob(net, blobId, outcome) ==
  IF outcome = "ok" /\ net[blobId] # <<>> THEN net[blobId] ELSE <<>>

\* Mutant: a failed read is not caught.
determineCategory_uncaught(blob, net, fate) ==
  IF blob.contentType = <<>>
  THEN LET content == readBlob(net, blob.blobId, fate.readCat)
       IN  IF content # <<>> THEN categorizeFromContent(content[1]) ELSE Thrown
  ELSE categorizeFromContentType(blob.contentType)

determineCategory(blob, net, fate) ==
  IF blob.contentType = <<>>
  THEN LET content == readBlob(net, blob.blobId, fate.readCat)
       IN  IF content # <<>> THEN categorizeFromContent(content[1]) ELSE "unknown"
  ELSE categorizeFromContentType(blob.contentType)

\* [...new Set(list)]
Dedupe(list) ==
  SelectSeq([i \in 1..Len(list) |-> IF \E j \in 1..(i - 1) : list[j] = list[i] THEN <<>> ELSE <<list[i]>>],
            LAMBDA x : x # <<>>)

\* WalrusClient.getBlobsReferencedBy: exists is the set of ids for which
\* blobExists answers true during this call.
getBlobsReferencedBy(net, blobId, outcome, exists) ==
  LET content == readBlob(net, blobId, outcome)
  IN  IF content = <<>> THEN <<>>
      ELSE LET referenced == SelectSeq(content[1].mentions,
                                       LAMBDA m : m # blobId /\ m \in exists /\ net[m] # <<>>)
               unique == Dedupe(referenced)
           IN  [i \in 1..Len(unique) |-> unique[i][1]]

findReferences(net, blobId, outcome, exists) == getBlobsReferencedBy(net, blobId, outcome, exists)

Abs(n) == IF n < 0 THEN -n ELSE n

Ceil(n, d) == (n + d - 1) \div d

\* t is the clock when new Date() is read.
getBlobAge(blob, t) ==
  IF ~Truthy(blob.createdEpoch) THEN 0
  ELSE Ceil(Abs(t - blob.createdEpoch * TicksPerDay), TicksPerDay)

\* Mutant: a recognized site is left to the reference and age rules.
determineImportance_noSiteRule(blob, category, net, fate, t) ==
  LET content == readBlob(net, blob.blobId, fate.readImp)
      referencedBy == findReferences(net, blob.blobId, fate.readRef1, fate.exists1)
      age == getBlobAge(blob, t)
  IN  IF blob.isExpired THEN "disposable"
      ELSE IF category = "website" /\ content = <<>> THEN "low"
      ELSE IF Len(referencedBy) > 0 THEN "important"
      ELSE IF age > OneYear THEN "low"
      ELSE "normal"

\* Mutant: the website rule is tried before the expiry rule.
determineImportance_siteFirst(blob, category, net, fate, t) ==
  LET content == readBlob(net, blob.blobId, "ok")
  IN  IF category = "website" /\ content # <<>> /\ detectWalrusSite(content[1], blob.blobId).isWalrusSite
      THEN "important"
      ELSE IF blob.isExpired THEN "disposable"
      ELSE IF Len(findReferences(net, blob.blobId, fate.readRef1, fate.exists1)) > 0 THEN "important"
      ELSE IF getBlobAge(blob, t) > OneYear THEN "low"
      ELSE "normal"

determineImportance(blob, category, net, fate, t) ==
  LET content == readBlob(net, blob.blobId, fate.readImp)
      isSite == content # <<>> /\ detectWalrusSite(content[1], blob.blobId).isWalrusSite
      siteInfo == detectWalrusSite(content[1], blob.blobId).siteInfo
      referencedBy == findReferences(net, blob.blobId, fate.readRef1, fate.exists1)
      age == getBlobAge(blob, t)
  IN  IF blob.isExpired THEN "disposable"
      ELSE IF category = "website" /\ content = <<>> THEN "low"
      ELSE IF category = "website" /\ isSite /\ siteInfo # <<>>
      THEN (IF siteInfo[1].domain # <<>> THEN "critical" ELSE "important")
      ELSE IF Len(referencedBy) > 0 THEN "important"
      ELSE IF age > OneYear THEN "low"
      ELSE IF age > SixMonths THEN "normal"
      ELSE "normal"

\* Mutant: a blob of low importance is deletable at any age.
canSafelyDelete_lowAtAnyAge(blob, importance, referencedBy, t) ==
  IF blob.isDeletable # "true" THEN FALSE
  ELSE IF importance = "critical" THEN FALSE
  ELSE IF Len(referencedBy) > 0 THEN FALSE
  ELSE IF blob.isExpired THEN TRUE
  ELSE IF importance = "disposable" THEN TRUE
  ELSE IF importance = "low" THEN TRUE
  ELSE FALSE

\* Mutant: only an explicit false is taken as the owner's veto.
canSafelyDelete_vetoOnlyFalse(blob, importance, referencedBy, t) ==
  IF blob.isDeletable = "false" THEN FALSE
  ELSE IF importance = "critical" THEN FALSE
  ELSE IF Len(referencedBy) > 0 THEN FALSE
  ELSE IF blob.isExpired THEN TRUE
  ELSE IF importance = "disposable" THEN TRUE
  ELSE IF importance = "low" /\ getBlobAge(blob, t) > OneYear THEN TRUE
  ELSE FALSE

\* Mutant: expiry is tested before the references.
canSafelyDelete_expiryFirst(blob, importance, referencedBy, t) ==
  IF blob.isDeletable # "true" THEN FALSE
  ELSE IF importance = "critical" THEN FALSE
  ELSE IF blob.isExpired THEN TRUE
  ELSE IF Len(referencedBy) > 0 THEN FALSE
  ELSE IF importance = "disposable" THEN TRUE
  ELSE IF importance = "low" /\ getBlobAge(blob, t) > OneYear THEN TRUE
  ELSE FALSE

canSafelyDelete(blob, importance, referencedBy, t) ==
  IF blob.isDeletable # "true" THEN FALSE
  ELSE IF importance = "critical" THEN FALSE
  ELSE IF Len(referencedBy) > 0 THEN FALSE
  ELSE IF blob.isExpired THEN TRUE
  ELSE IF importance = "disposable" THEN TRUE
  ELSE IF importance = "low" /\ getBlobAge(blob, t) > OneYear THEN TRUE
  ELSE FALSE

getDeleteReason(blob, importance, t) ==
  IF blob.isExpired THEN "Blob has expired"
  ELSE IF importance = "disposable" THEN "Marked as disposable"
  ELSE IF importance = "low" /\ getBlobAge(blob, t) > OneYear
  THEN "Low importance and older than 1 year"
  ELSE "Safe to delete based on analysis"

estimateLastAccess(blob) ==
  IF Truthy(blob.createdEpoch) THEN blob.createdEpoch * TicksPerDay ELSE Undefined

\* Of the subcategory only the website labels are modelled; every other
\* category gets the label "other" when the blob declares a type.
getSubcategory(blob, category, net, fate) ==
  IF blob.contentType = <<>> THEN <<>>
  ELSE IF category = "website"
  THEN LET content == readBlob(net, blob.blobId, fate.readSub)
           found == IF content = <<>> THEN NotASite
                    ELSE detectWalrusSite(content[1], blob.blobId)
       IN  IF found.isWalrusSite /\ found.siteInfo # <<>>
           THEN (IF found.siteInfo[1].isFileDirectory THEN <<"File Directory">> ELSE <<"Website">>)
           ELSE IF Includes(ToLowerCase(blob.contentType), s_zip)
           THEN <<"ZIP Site">>
           ELSE <<"HTML Page">>
  ELSE <<"other">>

\* Mutant: the reason is attached whatever canDelete is.
deleteReasonOf_always(blob, importance, canDelete, t) == <<getDeleteReason(blob, importance, t)>>

\* deleteReason: canDelete ? this.getDeleteReason(blob, importance) : undefined
deleteReasonOf(blob, importance, canDelete, t) ==
  IF canDelete THEN <<getDeleteReason(blob, importance, t)>> ELSE <<>>

\* The settled promise of classifyBlob: [status, value].  The clock reads t
\* in determineImportance, and may have advanced by fate.tick2 at
\* canSafelyDelete and by fate.tick3 more at getDeleteReason.
classifyBlob(blob, net, fate, t) ==
  LET category == determineCategory(blob, net, fate)
      importance == determineImportance(blob, category, net, fate, t)
      referencedBy == findReferences(net, blob.blobId, fate.readRef2, fate.exists2)
      canDelete == canSafelyDelete(blob, importance, referencedBy, t + fate.tick2)
  IN  IF category = Thrown \/ importance = Thrown
      THEN [status |-> "rejected", value |-> <<>>]
      ELSE [status |-> "fulfilled",
            value |-> << [blobId |-> blob.blobId,
                          category |-> category,
                          subcategory |-> getSubcategory(blob, category, net, fate),
                          importance |-> importance,
                          canDelete |-> canDelete,
                          deleteReason |-> deleteReasonOf(blob, importance, canDelete, t + fate.tick2 + fate.tick3),
                          sizeBytes |-> OrZero(blob.size),
                          storageCost |-> blob.storageRebate,
                          referencedBy |-> referencedBy,
                          lastAccessed |-> estimateLastAccess(blob)] >>]

\* Promise.allSettled over the batch, then the fulfilled values in order.
classifyBlobs(batch, net, fs, t) ==
  LET settled == [i \in 1..Len(batch) |-> classifyBlob(batch[i], net, fs[i], t)]
      fulfilled == SelectSeq(settled, LAMBDA r : r.status = "fulfilled")
  IN  [i \in 1..Len(fulfilled) |-> fulfilled[i].value[1]]

-----------------------------------------------------------------------------
(* The deletion planner (deletion-manager.ts).                             *)
(*                                                                         *)
(* DeletionOptions: includeCategories and excludeCategories are <<>> when  *)
(* absent, else <<the list>>; maxImportance is <<>> or <<the level>>;      *)
(* minSizeBytes and maxSizeBytes are Undefined when absent.                *)

\* More targets than this draw the volume warning.
ManyBlobs == 50

LargeBlobBytes == 10 * 1024 * 1024

importanceOrder == <<"disposable", "low", "normal", "important", "critical">>

\* Array.prototype.indexOf, 1-based; 0 when absent.
IndexOf(list, x) ==
  IF \E i \in 1..Len(list) : list[i] = x
  THEN CHOOSE i \in 1..Len(list) : list[i] = x /\ \A j \in 1..(i - 1) : list[j] # x
  ELSE 0

ListIncludes(list, x) == \E i \in 1..Len(list) : list[i] = x

\* Mutant: a category named in includeCategories is taken whatever canDelete is.
shouldDelete_includeOverrides(classification, opts) ==
  IF opts.includeCategories # <<>> /\ ListIncludes(opts.includeCategories[1], classification.category)
  THEN TRUE
  ELSE IF ~classification.canDelete THEN FALSE
  ELSE IF opts.excludeCategories # <<>> /\ ListIncludes(opts.excludeCategories[1], classification.category)
  THEN FALSE
  ELSE IF opts.includeCategories # <<>> /\ ~ListIncludes(opts.includeCategories[1], classification.category)
  THEN FALSE
  ELSE IF /\ opts.maxImportance # <<>>
          /\ IndexOf(importanceOrder, classification.importance) > IndexOf(importanceOrder, opts.maxImportance[1])
  THEN FALSE
  ELSE IF Truthy(opts.minSizeBytes) /\ classification.sizeBytes < opts.minSizeBytes THEN FALSE
  ELSE IF Truthy(opts.maxSizeBytes) /\ classification.sizeBytes > opts.maxSizeBytes THEN FALSE
  ELSE TRUE

shouldDelete(classification, opts) ==
  IF ~classification.canDelete THEN FALSE
  ELSE IF opts.excludeCategories # <<>> /\ ListIncludes(opts.excludeCategories[1], classification.category)
  THEN FALSE
  ELSE IF opts.includeCategories # <<>> /\ ~ListIncludes(opts.includeCategories[1], classification.category)
  THEN FALSE
  ELSE IF /\ opts.maxImportance # <<>>
          /\ IndexOf(importanceOrder, classification.importance) > IndexOf(importanceOrder, opts.maxImportance[1])
  THEN FALSE
  ELSE IF Truthy(opts.minSizeBytes) /\ classification.sizeBytes < opts.minSizeBytes THEN FALSE
  ELSE IF Truthy(opts.maxSizeBytes) /\ classification.sizeBytes > opts.maxSizeBytes THEN FALSE
  ELSE TRUE

\* A warning is its message, with the count the message is built around.
Warning(message, n) == [message |-> message, count |-> n]

\* Mutant: the volume warning is drawn at the limit itself.
generateWarnings_atLimit(deletableBlobs, opts) ==
  LET websiteBlobs == SelectSeq(deletableBlobs, LAMBDA b : b.category = "website")
      importantBlobs == SelectSeq(deletableBlobs, LAMBDA b : b.importance = "important")
      largeBlobs == SelectSeq(deletableBlobs, LAMBDA b : b.sizeBytes > LargeBlobBytes)
  IN  (IF Len(websiteBlobs) > 0 THEN <<Warning("website(s) will be deleted", Len(websiteBlobs))>> ELSE <<>>)
      \o (IF Len(importantBlobs) > 0 THEN <<Warning("important blob(s) will be deleted", Len(importantBlobs))>> ELSE <<>>)
      \o (IF Len(largeBlobs) > 0 THEN <<Warning("large blob(s) (>10MB) will be deleted", Len(largeBlobs))>> ELSE <<>>)
      \o (IF Len(deletableBlobs) >= ManyBlobs THEN <<Warning("Large number of blobs to delete", Len(deletableBlobs))>> ELSE <<>>)

generateWarnings(deletableBlobs, opts) ==
  LET websiteBlobs == SelectSeq(deletableBlobs, LAMBDA b : b.category = "website")
      importantBlobs == SelectSeq(deletableBlobs, LAMBDA b : b.importance = "important")
      largeBlobs == SelectSeq(deletableBlobs, LAMBDA b : b.sizeBytes > LargeBlobBytes)
  IN  (IF Len(websiteBlobs) > 0 THEN <<Warning("website(s) will be deleted", Len(websiteBlobs))>> ELSE <<>>)
      \o (IF Len(importantBlobs) > 0 THEN <<Warning("important blob(s) will be deleted", Len(importantBlobs))>> ELSE <<>>)
      \o (IF Len(largeBlobs) > 0 THEN <<Warning("large blob(s) (>10MB) will be deleted", Len(largeBlobs))>> ELSE <<>>)
      \o (IF Len(deletableBlobs) > ManyBlobs THEN <<Warning("Large number of blobs to delete", Len(deletableBlobs))>> ELSE <<>>)

\* list.reduce((sum, b) => sum + f(b), 0) over the numbers already mapped by f
RECURSIVE Sum(_)
Sum(numbers) == IF numbers = <<>> THEN 0 ELSE numbers[1] + Sum(Tail(numbers))

\* Mutant: the cost is summed over every classification, not over the targets.
planOf_costOfAll(classified, opts) ==
  LET deletableBlobs == SelectSeq(classified, LAMBDA c : shouldDelete(c, opts))
  IN  [blobsToDelete |-> [i \in 1..Len(deletableBlobs) |-> deletableBlobs[i].blobId],
       totalSizeReduction |-> Sum([i \in 1..Len(deletableBlobs) |-> deletableBlobs[i].sizeBytes]),
       costSavings |-> Sum([i \in 1..Len(classified) |-> OrZero(classified[i].storageCost)]),
       categories |-> [category \in Categories |->
                         Len(SelectSeq(deletableBlobs, LAMBDA b : b.category = category))],
       warnings |-> generateWarnings(deletableBlobs, opts)]

\* The plan built from the classifications the classifier returned.
planOf(classified, opts) ==
  LET deletableBlobs == SelectSeq(classified, LAMBDA c : shouldDelete(c, opts))
  IN  [blobsToDelete |-> [i \in 1..Len(deletableBlobs) |-> deletableBlobs[i].blobId],
       totalSizeReduction |-> Sum([i \in 1..Len(deletableBlobs) |-> deletableBlobs[i].sizeBytes]),
       costSavings |-> Sum([i \in 1..Len(deletableBlobs) |-> OrZero(deletableBlobs[i].storageCost)]),
       categories |-> [category \in Categories |->
                         Len(SelectSeq(deletableBlobs, LAMBDA b : b.category = category))],
       warnings |-> generateWarnings(deletableBlobs, opts)]

\* The characters of a delete reason.
ReasonText(reason) ==
  IF reason = "Blob has expired" THEN <<"B","l","o","b"," ","h","a","s"," ","e","x","p","i","r","e","d">>
  ELSE IF reason = "Marked as disposable" THEN <<"M","a","r","k","e","d"," ","a","s"," ","d","i","s","p","o","s","a","b","l","e">>
  ELSE IF reason = "Low importance and older than 1 year"
  THEN <<"L","o","w"," ","i","m","p","o","r","t","a","n","c","e"," ","a","n","d"," ","o","l","d","e","r"," ","t","h","a","n"," ","1"," ","y","e","a","r">>
  ELSE <<"S","a","f","e"," ","t","o"," ","d","e","l","e","t","e"," ","b","a","s","e","d"," ","o","n"," ","a","n","a","l","y","s","i","s">>

s_expired == <<"e","x","p","i","r","e","d">>
s_older_than_1_year == <<"o","l","d","e","r"," ","t","h","a","n"," ","1"," ","y","e","a","r">>

\* c.deleteReason?.includes(word)
ReasonIncludes(c, word) == c.deleteReason # <<>> /\ Includes(ReasonText(c.deleteReason[1]), word)

ReviewBytes == 50 * 1024 * 1024

Recommendation(type, impact, list) ==
  [type |-> type, impact |-> impact, blobIds |-> [i \in 1..Len(list) |-> list[i].blobId]]

\* Mutant: large websites are listed for review as well.
generateRecommendations_reviewWebsites(classified) ==
  LET expiredBlobs == SelectSeq(classified, LAMBDA c : ReasonIncludes(c, s_expired))
      oldLowImportance ==
        SelectSeq(classified, LAMBDA c : c.importance = "low" /\ ReasonIncludes(c, s_older_than_1_year))
      largeNonWebsite ==
        SelectSeq(classified, LAMBDA c : c.sizeBytes > ReviewBytes /\ c.importance # "critical")
  IN  (IF Len(expiredBlobs) > 0 THEN <<Recommendation("immediate", "High", expiredBlobs)>> ELSE <<>>)
      \o (IF Len(oldLowImportance) > 0 THEN <<Recommendation("suggested", "Medium", oldLowImportance)>> ELSE <<>>)
      \o (IF Len(largeNonWebsite) > 0 THEN <<Recommendation("review", "High", largeNonWebsite)>> ELSE <<>>)

generateRecommendations(classified) ==
  LET expiredBlobs == SelectSeq(classified, LAMBDA c : ReasonIncludes(c, s_expired))
      oldLowImportance ==
        SelectSeq(classified, LAMBDA c : c.importance = "low" /\ ReasonIncludes(c, s_older_than_1_year))
      largeNonWebsite ==
        SelectSeq(classified, LAMBDA c : /\ c.sizeBytes > ReviewBytes
                                         /\ c.category # "website"
                                         /\ c.importance # "critical")
  IN  (IF Len(expiredBlobs) > 0 THEN <<Recommendation("immediate", "High", expiredBlobs)>> ELSE <<>>)
      \o (IF Len(oldLowImportance) > 0 THEN <<Recommendation("suggested", "Medium", oldLowImportance)>> ELSE <<>>)
      \o (IF Len(largeNonWebsite) > 0 THEN <<Recommendation("review", "High", largeNonWebsite)>> ELSE <<>>)

\* The CleanupAnalysis built from the batch and its classifications.
analysisOf(batch, classified) ==
  [totalBlobs |-> Len(batch),
   totalSize |-> Sum([i \in 1..Len(batch) |-> OrZero(batch[i].size)]),
   categories |->
     [category \in Categories |->
        LET categoryBlobs == SelectSeq(classified, LAMBDA c : c.category = category)
            deletable == SelectSeq(categoryBlobs, LAMBDA b : b.canDelete)
        IN  [count |-> Len(categoryBlobs),
             size |-> Sum([i \in 1..Len(categoryBlobs) |-> categoryBlobs[i].sizeBytes]),
             deletable |-> Len(deletable),
             deletableSize |-> Sum([i \in 1..Len(deletable) |-> deletable[i].sizeBytes])]],
   recommendations |-> generateRecommendations(classified)]

-----------------------------------------------------------------------------
(* Executing a plan (deletion-manager.ts).                                 *)
(*                                                                         *)
(* An attempt holds what the caller and the network answer for one target: *)
(* confirm, the confirmation callback's outcome ("true", "false", "throw", *)
(* or "absent" when no callback is given); info and header, the outcome    *)
(* of the HEAD request and the content-type header it carries; readRef     *)
(* and exists, the outcome of the reference lookup; exit, how the walrus   *)
(* delete command ends; info2 and fate, the requests of                    *)
(* findBlobClassification.  A request that is not made is "skipped".       *)

\* WalrusClient.getBlobInfo: a settled promise of null (<<>>) or <<the BlobInfo>>.
\* The record made from the response headers carries no isDeletable,
\* createdEpoch or storageRebate.
getBlobInfo(net, blobId, outcome, header) ==
  IF outcome = "error" THEN [status |-> "rejected", value |-> <<>>]
  ELSE IF outcome = "notFound" \/ net[blobId] = <<>> THEN [status |-> "fulfilled", value |-> <<>>]
  ELSE [status |-> "fulfilled",
        value |-> << [blobId |-> blobId,
                      size |-> Len(net[blobId][1].bytes),
                      contentType |-> header,
                      isExpired |-> FALSE,
                      isDeletable |-> "undefined",
                      createdEpoch |-> Undefined,
                      storageRebate |-> Undefined] >>]

\* WalrusClient.deleteBlob: resolves true when the command exits with 0, rejects otherwise.
deleteBlob(exit) ==
  [status |-> IF exit = "zero" THEN "fulfilled" ELSE "rejected", value |-> TRUE]

\* What deleteBlobSafely returns, and the ids it handed to walrusClient.deleteBlob.
deleteBlobSafely(net, blobId, att) ==
  LET blobInfo == getBlobInfo(net, blobId, att.info, att.header)
      refused == [returned |-> FALSE, deleteBlob |-> <<>>]
  IN  IF blobInfo.status = "rejected" THEN refused
      ELSE IF blobInfo.value = <<>> THEN refused
      ELSE IF blobInfo.value[1].isDeletable # "true" THEN refused
      ELSE IF Len(getBlobsReferencedBy(net, blobId, att.readRef, att.exists)) > 0 THEN refused
      ELSE [returned |-> deleteBlob(att.exit).status = "fulfilled" /\ deleteBlob(att.exit).value,
            deleteBlob |-> <<blobId>>]

\* null (<<>>) or <<the classification of the blob's fresh BlobInfo>>.
findBlobClassification(net, blobId, att, t) ==
  LET blobInfo == getBlobInfo(net, blobId, att.info2, att.header)
  IN  IF blobInfo.status = "rejected" \/ blobInfo.value = <<>> THEN <<>>
      ELSE LET settled == classifyBlob(blobInfo.value[1], net, att.fate, t)
           IN  IF settled.status = "rejected" THEN <<>> ELSE settled.value

NoResult ==
  [successful |-> <<>>, failed |-> <<>>, skipped |-> <<>>,
   totalDeleted |-> 0, totalSizeFreed |-> 0, totalCostSaved |-> 0]

NoCalls == [deleteBlobSafely |-> <<>>, deleteBlob |-> <<>>]

\* Mutant: a callback that throws is taken for a refusal.
executeIteration_throwSkips(acc, net, blobId, att, t) ==
  IF att.confirm \in {"throw", "false"}
  THEN [acc EXCEPT !.result.skipped = Append(@, blobId)]
  ELSE LET safely == deleteBlobSafely(net, blobId, att)
           made == [deleteBlobSafely |-> Append(acc.calls.deleteBlobSafely, blobId),
                    deleteBlob |-> acc.calls.deleteBlob \o safely.deleteBlob]
       IN  IF safely.returned
           THEN LET blobClassification == findBlobClassification(net, blobId, att, t)
                IN  [result |-> [acc.result EXCEPT
                                   !.successful = Append(@, blobId),
                                   !.totalDeleted = @ + 1,
                                   !.totalSizeFreed = @ + (IF blobClassification # <<>>
                                                           THEN blobClassification[1].sizeBytes ELSE 0),
                                   !.totalCostSaved = @ + (IF blobClassification # <<>>
                                                           THEN OrZero(blobClassification[1].storageCost) ELSE 0)],
                     calls |-> made]
           ELSE [result |-> [acc.result EXCEPT
                               !.failed = Append(@, [blobId |-> blobId, error |-> "Deletion failed"])],
                 calls |-> made]

\* One pass of the loop of executeDeletionPlan, on the result and the calls so far.
executeIteration(acc, net, blobId, att, t) ==
  IF att.confirm = "throw"
  THEN [acc EXCEPT !.result.failed = Append(@, [blobId |-> blobId, error |-> "thrown"])]
  ELSE IF att.confirm = "false"
  THEN [acc EXCEPT !.result.skipped = Append(@, blobId)]
  ELSE LET safely == deleteBlobSafely(net, blobId, att)
           made == [deleteBlobSafely |-> Append(acc.calls.deleteBlobSafely, blobId),
                    deleteBlob |-> acc.calls.deleteBlob \o safely.deleteBlob]
       IN  IF safely.returned
           THEN LET blobClassification == findBlobClassification(net, blobId, att, t)
                IN  [result |-> [acc.result EXCEPT
                                   !.successful = Append(@, blobId),
                                   !.totalDeleted = @ + 1,
                                   !.totalSizeFreed = @ + (IF blobClassification # <<>>
                                                           THEN blobClassification[1].sizeBytes ELSE 0),
                                   !.totalCostSaved = @ + (IF blobClassification # <<>>
                                                           THEN OrZero(blobClassification[1].storageCost) ELSE 0)],
                     calls |-> made]
           ELSE [result |-> [acc.result EXCEPT
                               !.failed = Append(@, [blobId |-> blobId, error |-> "Deletion failed"])],
                 calls |-> made]

\* The result and the calls after the first n targets.
RECURSIVE executeDeletionPlan(_, _, _, _, _)
executeDeletionPlan(net, blobsToDelete, atts, t, n) ==
  IF n = 0 THEN [result |-> NoResult, calls |-> NoCalls]
  ELSE executeIteration(executeDeletionPlan(net, blobsToDelete, atts, t, n - 1),
                        net, blobsToDelete[n], atts[n], t)

-----------------------------------------------------------------------------
(* The wallet summary (wallet-tracker.ts). *)

\* WalletTracker.categorizeBlob: contentType is <<>> when absent.
categorizeBlob(blob) ==
  IF blob.contentType = <<>> THEN "unknown"
  ELSE LET contentType == ToLowerCase(blob.contentType)
       IN  IF \/ Includes(contentType, s_text_html)
              \/ Includes(contentType, s_application_zip)
           THEN "website"
           ELSE IF StartsWith(contentType, s_image) THEN "image"
           ELSE IF StartsWith(contentType, s_video) THEN "video"
           ELSE IF StartsWith(contentType, s_audio) THEN "audio"
           ELSE IF \/ Includes(contentType, s_pdf)
                   \/ Includes(contentType, s_document)
                   \/ Includes(contentType, s_text)
                   \/ Includes(contentType, s_msword)
                   \/ Includes(contentType, s_openxml)
           THEN "document"
           ELSE IF \/ Includes(contentType, s_zip)
                   \/ Includes(contentType, s_tar)
                   \/ Includes(contentType, s_rar)
                   \/ Includes(contentType, s_7z)
           THEN "archive"
           ELSE IF \/ Includes(contentType, s_javascript)
                   \/ Includes(contentType, s_typescript)
                   \/ Includes(contentType, s_python)
                   \/ Includes(contentType, s_json)
                   \/ Includes(contentType, s_xml)
           THEN "code"
           ELSE IF \/ Includes(contentType, s_application)
                   \/ Includes(contentType, s_binary)
           THEN "data"
           ELSE "unknown"

\* The WalletBlobSummary of a wallet's listed blobs.
getWalletBlobSummaryFromBlobs(walletAddress, batch) ==
  LET deletable == SelectSeq(batch, LAMBDA blob : blob.isDeletable = "true")
  IN  [address |-> walletAddress,
       totalBlobs |-> Len(batch),
       totalSize |-> Sum([i \in 1..Len(batch) |-> OrZero(batch[i].size)]),
       totalCost |-> Sum([i \in 1..Len(batch) |-> OrZero(batch[i].storageRebate)]),
       categories |-> [category \in Categories |->
                         Len(SelectSeq(batch, LAMBDA blob : categorizeBlob(blob) = category))],
       deletableBlobs |-> Len(deletable),
       deletableSize |-> Sum([i \in 1..Len(deletable) |-> OrZero(deletable[i].size)]),
       potentialSavings |-> Sum([i \in 1..Len(deletable) |-> OrZero(deletable[i].storageRebate)]),
       websites |-> Len(SelectSeq(batch, LAMBDA blob : categorizeBlob(blob) = "website")),
       expiredBlobs |-> Len(SelectSeq(batch, LAMBDA blob : blob.isExpired))]

-----------------------------------------------------------------------------
(* The cleanup command (cli/commands/cleanup.ts), with the queries of      *)
(* WalrusSystemQuery, the estimates of CostEstimator and the calls to      *)
(* DeletionExecutor.                                                       *)
(*                                                                         *)
(* The chain holds, for the scanned wallet, its blob objects in the order  *)
(* they are listed, each [blobId, deletable], and its sites, each the      *)
(* blob ids of its resources, one per dynamic field.  The command runs     *)
(* from one await to the next; pc names the call or the prompt it waits    *)
(* for.  run.submitted keeps, in order, the blob ids handed to             *)
(* deleteBlobBatch.                                                        *)

\* Blobs the executor takes in one batch.
BatchSize == 10

NoRun ==
  [walrusSites |-> <<>>, site |-> 1, siteBlobIds |-> {}, orphanBlobs |-> <<>>, costEstimates |-> <<>>,
   deletableBlobs |-> <<>>, processingMethod |-> "", blobsToProcess |-> <<>>, batches |-> 0, i |-> 0,
   finalConfirmation |-> "", confirmed |-> {}, submitted |-> <<>>]

\* listBlobsForWallet: the BlobInfo of every blob object of the wallet
listBlobsForWallet(ch) ==
  [k \in 1..Len(ch.objects) |-> [blobId |-> ch.objects[k].blobId, suiObjectId |-> k]]

\* queryWalrusSites: the site objects of the wallet, or none when the query fails
queryWalrusSites(ch, outcome) ==
  IF outcome = "ok" THEN [k \in 1..Len(ch.sites) |-> k] ELSE <<>>

\* getSiteBlobIds: the blob ids of the dynamic fields that could be fetched
\* (fetched[k] for field k), or none when the fields cannot be listed
getSiteBlobIds(ch, siteObjectId, outcome, fetched) ==
  IF outcome = "ok"
  THEN LET resources == ch.sites[siteObjectId]
           fields == SelectSeq([k \in 1..Len(resources) |-> k], LAMBDA k : fetched[k])
       IN  [k \in 1..Len(fields) |-> resources[fields[k]]]
  ELSE <<>>

\* estimateSingleBlobCost: deletable as the fetched object says, and not
\* deletable when the object cannot be fetched
estimateSingleBlobCost(ch, blob, outcome) ==
  [blobId |-> blob.blobId,
   deletable |-> outcome = "ok" /\ ch.objects[blob.suiObjectId].deletable]

\* estimateDeletionCosts: one estimate per blob, in order; outcomes[k] is the
\* outcome of fetching object k
estimateDeletionCosts(ch, orphans, outcomes) ==
  [k \in 1..Len(orphans) |-> estimateSingleBlobCost(ch, orphans[k], outcomes[orphans[k].suiObjectId])]

\* estimateBatchCosts: the number of batches
estimateBatchCosts(estimates) == (Len(estimates) + BatchSize - 1) \div BatchSize

\* Lines 90-102, reached when the last site has been analyzed.
AfterSites(ch, r) ==
  LET listed == listBlobsForWallet(ch)
      orphanBlobs == SelectSeq(listed, LAMBDA blob : blob.blobId \notin r.siteBlobIds)
  IN  IF Len(orphanBlobs) = 0
      THEN [pc |-> "done", run |-> r]
      ELSE [pc |-> "estimateDeletionCosts", run |-> [r EXCEPT !.orphanBlobs = orphanBlobs]]

\* AfterEstimates without the dry-run branch of lines 137-149.
AfterEstimates_ignoreDryRun(r, opts) ==
  LET deletableBlobs == SelectSeq(r.costEstimates, LAMBDA estimate : estimate.deletable)
      next == [r EXCEPT !.deletableBlobs = deletableBlobs]
  IN  IF Len(deletableBlobs) = 0 THEN [pc |-> "done", run |-> next]
      ELSE [pc |-> "showDetails", run |-> next]

\* Lines 107-149, reached when the orphans have been estimated.
AfterEstimates(r, opts) ==
  LET deletableBlobs == SelectSeq(r.costEstimates, LAMBDA estimate : estimate.deletable)
      next == [r EXCEPT !.deletableBlobs = deletableBlobs]
  IN  IF Len(deletableBlobs) = 0 THEN [pc |-> "done", run |-> next]
      ELSE IF opts.dryRun THEN [pc |-> "done", run |-> next]
      ELSE [pc |-> "showDetails", run |-> next]

\* deleteBlobBatch: the executor is handed these estimates
deleteBlobBatch(r, batchBlobs) ==
  [r EXCEPT !.submitted = @ \o [k \in 1..Len(batchBlobs) |-> batchBlobs[k].blobId]]

\* blobsToProcess.slice((i - 1) * batchSize, i * batchSize), batches counted from 1
BatchSlice(list, i) ==
  SubSeq(list, (i - 1) * BatchSize + 1, IF i * BatchSize < Len(list) THEN i * BatchSize ELSE Len(list))

\* Lines 237-287 up to the first await: the first prompt of individual mode,
\* or the first batch handed to the executor.
Execute(r) ==
  IF r.processingMethod = "individual"
  THEN [pc |-> "confirmBlob", run |-> [r EXCEPT !.i = 1]]
  ELSE LET batches == estimateBatchCosts(r.blobsToProcess)
       IN  IF batches = 0
           THEN [pc |-> "done", run |-> [r EXCEPT !.batches = 0]]
           ELSE [pc |-> "deleteBlobBatch",
                 run |-> deleteBlobBatch([r EXCEPT !.batches = batches, !.i = 1], BatchSlice(r.blobsToProcess, 1))]

\* Lines 208-235 up to the first await: the final confirmation unless forced.
Summary(r, opts) ==
  IF ~opts.force THEN [pc |-> "finalConfirmation", run |-> r] ELSE Execute(r)

-----------------------------------------------------------------------------
(* The network's part in one classifyBlob call.                            *)
(*                                                                         *)
(* A fate records, for every request the call makes, what the network      *)
(* answered: readCat, readImp, readSub the readBlob of determineCategory,  *)
(* determineImportance and getSubcategory; readRef1 / exists1 the readBlob *)
(* and the blobExists answers of the reference lookup inside               *)
(* determineImportance; readRef2 / exists2 those of the lookup that fills  *)
(* referencedBy; tick2 and tick3 the advance of the clock between the      *)
(* readings of new Date().  A request the call does not make is "skipped". *)

NoFate ==
  [readCat |-> "skipped", readImp |-> "skipped", readSub |-> "skipped",
   readRef1 |-> "skipped", exists1 |-> {}, readRef2 |-> "skipped", exists2 |-> {},
   tick2 |-> 0, tick3 |-> 0]

\* The answers readBlob(blobId) can get when it is called.
ReadOutcomes(net, blobId, called) ==
  IF ~called THEN {"skipped"}
  ELSE IF net[blobId] = <<>> THEN {"fail"}
  ELSE {"ok", "fail"}

\* The sets of ids blobExists can confirm during a lookup whose read ended in outcome.
ExistsOutcomes(net, blobId, outcome) ==
  IF outcome # "ok" \/ net[blobId] = <<>> THEN {{}}
  ELSE LET mentions == net[blobId][1].mentions
       IN  SUBSET {mentions[i] : i \in {j \in 1..Len(mentions) : mentions[j] # blobId /\ net[mentions[j]] # <<>>}}

\* determineImportance reaches its reference lookup.
ReachesLookup(blob, net, f) ==
  LET category == determineCategory(blob, net, f)
      content == readBlob(net, blob.blobId, f.readImp)
  IN  /\ ~blob.isExpired
      /\ ~(category = "website" /\ content = <<>>)
      /\ ~(category = "website" /\ detectWalrusSite(content[1], blob.blobId).isWalrusSite)

\* canSafelyDelete reaches its reading of the blob's age.
ReachesAge(blob, net, f, t) ==
  LET importance == determineImportance(blob, determineCategory(blob, net, f), net, f, t)
  IN  /\ blob.isDeletable = "true"
      /\ Len(findReferences(net, blob.blobId, f.readRef2, f.exists2)) = 0
      /\ ~blob.isExpired
      /\ importance = "low"
      /\ Truthy(blob.createdEpoch)

FateSet(blob, net, t) ==
  LET id == blob.blobId
      s1 == {[NoFate EXCEPT !.readCat = r] : r \in ReadOutcomes(net, id, blob.contentType = <<>>)}
      s2 == UNION {{[f EXCEPT !.readImp = r] :
                     r \in ReadOutcomes(net, id, ~blob.isExpired /\ determineCategory(blob, net, f) = "website")} :
                   f \in s1}
      s3 == UNION {{[f EXCEPT !.readRef1 = r] : r \in ReadOutcomes(net, id, ReachesLookup(blob, net, f))} : f \in s2}
      s4 == UNION {{[f EXCEPT !.exists1 = e] : e \in ExistsOutcomes(net, id, f.readRef1)} : f \in s3}
      s5 == UNION {{[f EXCEPT !.readRef2 = r] : r \in ReadOutcomes(net, id, TRUE)} : f \in s4}
      s6 == UNION {{[f EXCEPT !.exists2 = e] : e \in ExistsOutcomes(net, id, f.readRef2)} : f \in s5}
      s7 == UNION {{[f EXCEPT !.readSub = r] :
                     r \in ReadOutcomes(net, id, blob.contentType # <<>> /\ determineCategory(blob, net, f) = "website")} :
                   f \in s6}
      s8 == UNION {{[f EXCEPT !.tick2 = k] : k \in IF ReachesAge(blob, net, f, t) THEN {0, 1} ELSE {0}} : f \in s7}
  IN  UNION {{[f EXCEPT !.tick3 = k] :
               k \in IF ReachesAge(blob, net, f, t) /\ getBlobAge(blob, t + f.tick2) > OneYear THEN {0, 1} ELSE {0}} :
             f \in s8}

-----------------------------------------------------------------------------
(* Inputs. *)

Text_html == <<"<","h","t","m","l",">","h","i","<","/","h","t","m","l",">">>
Text_plain == <<"h","i">>
Text_json == <<"{","}">>
Bytes_zip == <<"P","K","x03","x04">>
Bytes_png == <<"x89","P","N","G">>
Path_style_css == <<"s","t","y","l","e",".","c","s","s">>
Text_doctype == s_doctype_html \o <<">">> \o Text_html
\* a page after more than a signature of text
Text_html_far == [i \in 1..SnifferSignatureLen |-> " "] \o Text_html
\* a JSON document with markup in a string: {"a":"<html>"}
Text_json_html == <<"{","\"","a","\"",":","\"">> \o s_html_tag \o <<">","\"","}">>
Bytes_jpeg == <<"xFF","xD8","xFF">>
Bytes_gif == <<"G","I","F","8">>
Bytes_pdf == s_pdf_magic \o <<"-","1",".","4">>

NoZip(bytes, json, mentions) ==
  [bytes |-> bytes, zip |-> FALSE, entries |-> <<>>, json |-> json, mentions |-> mentions]

Zip(entries) ==
  [bytes |-> Bytes_zip, zip |-> TRUE, entries |-> entries, json |-> FALSE, mentions |-> <<>>]

File(path) == [path |-> path, dir |-> FALSE, readable |-> TRUE]

\* What a classified blob may hold; blob 2 is the other blob of the network.
BlobContents ==
  { NoZip(Text_html, FALSE, <<>>),
    NoZip(Text_html, FALSE, <<2>>),
    NoZip(Text_plain, FALSE, <<2, 1, 2>>),
    NoZip(Text_plain, FALSE, <<>>),
    NoZip(Text_json, TRUE, <<>>),
    NoZip(Bytes_png, FALSE, <<>>),
    NoZip(Bytes_jpeg, FALSE, <<>>),
    NoZip(Bytes_gif, FALSE, <<>>),
    NoZip(Bytes_pdf, FALSE, <<>>),
    NoZip(Text_doctype, FALSE, <<>>),
    NoZip(Text_html_far, FALSE, <<>>),
    NoZip(Text_json_html, TRUE, <<>>),
    Zip(<<File(s_index_html), File(Path_style_css)>>),
    Zip(<<File(Path_style_css)>>) }

Type_text_html == s_text_html
Type_image_png == s_image \o <<"p","n","g">>
Type_zip_site == s_application_zip \o <<";","s","i","t","e">>

ContentTypes == {<<>>, Type_text_html, Type_image_png, Type_zip_site}

Clock == {Today * TicksPerDay + k : k \in 0..(TicksPerDay - 1)}

\* createdEpoch: absent, 0, around one year before Today, recent, and in the future.
CreatedEpochs == {Undefined, 0, Today - (OneYear + 1), Today - OneYear, Today - 1, Today + OneYear + 1}

SingleBlobs ==
  { [blobId |-> 1, size |-> sz, contentType |-> ct, isExpired |-> ex, isDeletable |-> del,
     createdEpoch |-> ce, storageRebate |-> IF sz = Undefined THEN Undefined ELSE 7] :
    sz \in {Undefined, 5}, ct \in ContentTypes, ex \in BOOLEAN,
    del \in {"true", "false", "undefined"}, ce \in CreatedEpochs }

NoOptions ==
  [includeCategories |-> <<>>, excludeCategories |-> <<>>, maxImportance |-> <<>>,
   minSizeBytes |-> Undefined, maxSizeBytes |-> Undefined]

-----------------------------------------------------------------------------
(* classifyBlob on one blob. *)

InitClassify ==
  /\ pc = "idle"
  /\ now \in Clock
  /\ \E b \in SingleBlobs : blobs = <<b>>
  /\ \E c \in {<<>>} \cup {<<x>> : x \in BlobContents}, other \in {<<>>, <<NoZip(Text_plain, FALSE, <<>>)>>, <<NoZip(Text_plain, FALSE, <<1>>)>>} :
       store = (1 :> c) @@ (2 :> other)
  /\ options = NoOptions
  /\ fates = <<>>
  /\ classifications = <<>>
  /\ plan = <<>>
  /\ siteContent = <<>>
  /\ detection = <<>>
  /\ targetList = <<>>
  /\ warnings = <<>>
  /\ declaredType = <<>>
  /\ categorized = <<>>
  /\ detectedType = <<>>
  /\ chain = <<>>
  /\ cli = <<>>
  /\ run = <<>>
  /\ analysis = <<>>
  /\ attempts = <<>>
  /\ result = <<>>
  /\ returned = <<>>
  /\ calls = <<>>
  /\ summary = <<>>

ClassifyBlob ==
  /\ pc = "idle"
  /\ Len(blobs) = 1
  /\ \E f \in FateSet(blobs[1], store, now) :
       LET settled == classifyBlob(blobs[1], store, f, now)
       IN  /\ fates' = <<f>>
           /\ classifications' = settled.value
  /\ pc' = "classifyBlob"
  /\ UNCHANGED <<now, store, blobs, options, plan, siteContent, detection, targetList, warnings,
                 declaredType, categorized, detectedType, chain, cli, run,
                 analysis, attempts, result, returned, calls, summary>>

NextClassify == ClassifyBlob

SpecClassify == InitClassify /\ [][NextClassify]_vars

-----------------------------------------------------------------------------
(* classifyBlobs and createDeletionPlan on a batch.                        *)
(*                                                                         *)
(* A batch is up to MaxVaried blobs drawn from PlanKinds, each with what   *)
(* the network stores for it, followed by filler blobs: expired,           *)
(* owner-deletable images that the network no longer stores.  The id of a  *)
(* blob is its position in the batch.                                      *)

Kind(ct, ex, del, ce, sz, cost, content) ==
  [blob |-> [blobId |-> 0, size |-> sz, contentType |-> ct, isExpired |-> ex, isDeletable |-> del,
             createdEpoch |-> ce, storageRebate |-> cost],
   content |-> content]

PlanKinds ==
  { \* expired image, gone from the network: disposable and deletable
    Kind(Type_image_png, TRUE, "true", Undefined, 5, 7, <<>>),
    \* expired page, large, still readable and naming blobs 1 and 2
    Kind(Type_text_html, TRUE, "true", Today - 1, LargeBlobBytes + 1, Undefined, <<NoZip(Text_html, FALSE, <<1, 2>>)>>),
    \* old blob of no declared type
    Kind(<<>>, FALSE, "true", Today - (OneYear + 1), Undefined, Undefined, <<NoZip(Text_json, TRUE, <<>>)>>),
    \* recent image the owner did not make deletable
    Kind(Type_image_png, FALSE, "undefined", Today - 1, 5, 7, <<>>),
    \* old page, readable
    Kind(Type_text_html, FALSE, "true", Today - (OneYear + 1), 6, 0, <<NoZip(Text_html, FALSE, <<>>)>>),
    \* expired image of exactly 10 MiB
    Kind(Type_image_png, TRUE, "true", Undefined, LargeBlobBytes, 3, <<>>) }

RECURSIVE SeqsUpTo(_, _)
SeqsUpTo(S, n) ==
  IF n = 0 THEN {<<>>}
  ELSE LET shorter == SeqsUpTo(S, n - 1)
       IN  shorter \cup {Append(q, x) : q \in {r \in shorter : Len(r) = n - 1}, x \in S}

Filler ==
  [blobId |-> 0, size |-> 5, contentType |-> Type_image_png, isExpired |-> TRUE, isDeletable |-> "true",
   createdEpoch |-> Undefined, storageRebate |-> 7]

\* The batch made of the kinds ks followed by n fillers.
BatchOf(ks, n) ==
  [i \in 1..(Len(ks) + n) |-> [(IF i <= Len(ks) THEN ks[i].blob ELSE Filler) EXCEPT !.blobId = i]]

\* The network for that batch: blobs 1 and 2 are the ones a content can name.
StoreOf(ks, n) ==
  [i \in 1..(IF Len(ks) + n < 2 THEN 2 ELSE Len(ks) + n) |-> IF i <= Len(ks) THEN ks[i].content ELSE <<>>]

\* The fates of a batch's blobs; the clock stands still during a batch.
RECURSIVE FateSeqs(_, _, _, _)
FateSeqs(batch, net, t, n) ==
  IF n = 0 THEN {<<>>}
  ELSE {Append(fs, f) : fs \in FateSeqs(batch, net, t, n - 1),
                        f \in {g \in FateSet(batch[n], net, t) : g.tick2 = 0 /\ g.tick3 = 0}}

PlanOptions ==
  { [includeCategories |-> inc, excludeCategories |-> exc, maxImportance |-> imp,
     minSizeBytes |-> lo, maxSizeBytes |-> hi] :
    inc \in {<<>>, <<<<>>>>, <<<<"image", "website">>>>},
    exc \in {<<>>, <<<<"website">>>>},
    imp \in {<<>>, <<"disposable">>, <<"low">>},
    lo \in {Undefined, 0, 6},
    hi \in {Undefined, 0, 5} }

InitPlan ==
  /\ pc = "idle"
  /\ now = Today * TicksPerDay
  /\ \E ks \in SeqsUpTo(PlanKinds, MaxVaried) :
       /\ blobs = BatchOf(ks, 0)
       /\ store = StoreOf(ks, 0)
  /\ options = NoOptions
  /\ fates = <<>>
  /\ classifications = <<>>
  /\ plan = <<>>
  /\ siteContent = <<>>
  /\ detection = <<>>
  /\ targetList = <<>>
  /\ warnings = <<>>
  /\ declaredType = <<>>
  /\ categorized = <<>>
  /\ detectedType = <<>>
  /\ chain = <<>>
  /\ cli = <<>>
  /\ run = <<>>
  /\ analysis = <<>>
  /\ attempts = <<>>
  /\ result = <<>>
  /\ returned = <<>>
  /\ calls = <<>>
  /\ summary = <<>>

ClassifyBlobs ==
  /\ pc = "idle"
  /\ \E fs \in FateSeqs(blobs, store, now, Len(blobs)) :
       /\ fates' = fs
       /\ classifications' = classifyBlobs(blobs, store, fs, now)
  /\ pc' = "classifyBlobs"
  /\ UNCHANGED <<now, store, blobs, options, plan, siteContent, detection, targetList, warnings,
                 declaredType, categorized, detectedType, chain, cli, run,
                 analysis, attempts, result, returned, calls, summary>>

\* createDeletionPlan, its options drawn from optionSet: the batch is
\* classified, then the plan is made of the classifications.  The fates are
\* recorded by the classifier's own operations only.
CreateDeletionPlanWith(optionSet) ==
  /\ pc = "idle"
  /\ \E fs \in FateSeqs(blobs, store, now, Len(blobs)) :
       \E classified \in {classifyBlobs(blobs, store, fs, now)} :
         \E opts \in optionSet :
           /\ options' = opts
           /\ classifications' = classified
           /\ plan' = <<planOf(classified, opts)>>
  /\ pc' = "createDeletionPlan"
  /\ UNCHANGED <<now, store, blobs, fates, siteContent, detection, targetList, warnings,
                 declaredType, categorized, detectedType, chain, cli, run,
                 analysis, attempts, result, returned, calls, summary>>

CreateDeletionPlan == CreateDeletionPlanWith(PlanOptions)

NextPlan == ClassifyBlobs \/ CreateDeletionPlan

SpecPlan == InitPlan /\ [][NextPlan]_vars

-----------------------------------------------------------------------------
(* createDeletionPlan on batches around the volume limit, and             *)
(* generateWarnings on lists of targets.                                   *)
(*                                                                         *)
(* canSafelyDelete passes no blob of importance important, so the          *)
(* classifier hands createDeletionPlan no important target.                *)
(* generateWarnings is therefore applied as well to lists of its           *)
(* parameter's type, BlobClassification[], that hold such targets.         *)

\* The batch size of the volume scenario.
ScenarioBlobs == 60

BulkCounts == {ManyBlobs - 1, ManyBlobs, ManyBlobs + 1, ScenarioBlobs}

VolumeOptions ==
  { NoOptions,
    [NoOptions EXCEPT !.excludeCategories = <<<<"website">>>>],
    [NoOptions EXCEPT !.maxSizeBytes = LargeBlobBytes] }

\* The blobs that vary in a bulk batch.
VolumeKinds ==
  { k \in PlanKinds :
      \/ k.blob.size >= LargeBlobBytes
      \/ k.blob.isDeletable # "true" }

\* A deletable classification, as createDeletionPlan filters them.
Target(category, importance, sizeBytes) ==
  [blobId |-> 0, category |-> category, subcategory |-> <<>>, importance |-> importance,
   canDelete |-> TRUE, deleteReason |-> <<"Blob has expired">>, sizeBytes |-> sizeBytes,
   storageCost |-> 7, referencedBy |-> <<>>, lastAccessed |-> Undefined]

TargetKinds ==
  { Target(c, i, sz) : c \in {"website", "image"}, i \in {"important", "disposable"},
                       sz \in {LargeBlobBytes, LargeBlobBytes + 1} }

\* The targets ts followed by n small disposable images.
TargetsOf(ts, n) ==
  [i \in 1..(Len(ts) + n) |->
     [(IF i <= Len(ts) THEN ts[i] ELSE Target("image", "disposable", 5)) EXCEPT !.blobId = i]]

InitVolume ==
  /\ pc = "idle"
  /\ now = Today * TicksPerDay
  /\ \/ /\ \E ks \in SeqsUpTo(VolumeKinds, MaxVaried), n \in BulkCounts :
             /\ blobs = BatchOf(ks, n)
             /\ store = StoreOf(ks, n)
        /\ targetList = <<>>
     \/ /\ blobs = <<>>
        /\ store = <<>>
        /\ \E ts \in SeqsUpTo(TargetKinds, MaxVaried), n \in BulkCounts \cup {0} :
             targetList = TargetsOf(ts, n)
  /\ options = NoOptions
  /\ fates = <<>>
  /\ classifications = <<>>
  /\ plan = <<>>
  /\ siteContent = <<>>
  /\ detection = <<>>
  /\ warnings = <<>>
  /\ declaredType = <<>>
  /\ categorized = <<>>
  /\ detectedType = <<>>
  /\ chain = <<>>
  /\ cli = <<>>
  /\ run = <<>>
  /\ analysis = <<>>
  /\ attempts = <<>>
  /\ result = <<>>
  /\ returned = <<>>
  /\ calls = <<>>
  /\ summary = <<>>

CreateVolumePlan == CreateDeletionPlanWith(VolumeOptions)

GenerateWarnings ==
  /\ pc = "idle"
  /\ warnings' = generateWarnings(targetList, options)
  /\ pc' = "generateWarnings"
  /\ UNCHANGED <<now, store, blobs, options, fates, classifications, plan, siteContent, detection,
                 targetList, declaredType, categorized, detectedType, chain,
                 cli, run, analysis, attempts, result, returned, calls,
                 summary>>

NextVolume == CreateVolumePlan \/ GenerateWarnings

SpecVolume == InitVolume /\ [][NextVolume]_vars

-----------------------------------------------------------------------------
(* analyzeStorageCleanup on batches with blobs around the review size. *)

AnalyzeKinds ==
  { \* expired image, gone from the network: deletable as expired
    Kind(Type_image_png, TRUE, "true", Undefined, 5, 7, <<>>),
    \* expired image the owner did not make deletable, above the review size
    Kind(Type_image_png, TRUE, "undefined", Undefined, ReviewBytes + 1, 7, <<>>),
    \* old image of exactly the review size: deletable by age
    Kind(Type_image_png, FALSE, "true", Today - (OneYear + 1), ReviewBytes, 7, <<>>),
    \* recent image above the review size
    Kind(Type_image_png, FALSE, "true", Today - 1, ReviewBytes + 1, 7, <<>>),
    \* expired page above the review size, still readable
    Kind(Type_text_html, TRUE, "true", Today - 1, ReviewBytes + 1, Undefined, <<NoZip(Text_html, FALSE, <<>>)>>),
    \* old page, gone from the network: low, deletable by age
    Kind(Type_text_html, FALSE, "true", Today - (OneYear + 1), 6, 0, <<>>) }

InitAnalyze ==
  /\ pc = "idle"
  /\ now = Today * TicksPerDay
  /\ \E ks \in SeqsUpTo(AnalyzeKinds, MaxVaried) :
       /\ blobs = BatchOf(ks, 0)
       /\ store = StoreOf(ks, 0)
  /\ options = NoOptions
  /\ fates = <<>>
  /\ classifications = <<>>
  /\ plan = <<>>
  /\ siteContent = <<>>
  /\ detection = <<>>
  /\ targetList = <<>>
  /\ warnings = <<>>
  /\ declaredType = <<>>
  /\ categorized = <<>>
  /\ detectedType = <<>>
  /\ chain = <<>>
  /\ cli = <<>>
  /\ run = <<>>
  /\ analysis = <<>>
  /\ attempts = <<>>
  /\ result = <<>>
  /\ returned = <<>>
  /\ calls = <<>>
  /\ summary = <<>>

\* analyzeStorageCleanup: the batch is classified, then grouped, then the
\* recommendations are made of the classifications.
AnalyzeStorageCleanup ==
  /\ pc = "idle"
  /\ \E fs \in FateSeqs(blobs, store, now, Len(blobs)) :
       \E classified \in {classifyBlobs(blobs, store, fs, now)} :
         /\ fates' = fs
         /\ classifications' = classified
         /\ analysis' = <<analysisOf(blobs, classified)>>
  /\ pc' = "analyzeStorageCleanup"
  /\ UNCHANGED <<now, store, blobs, options, plan, siteContent, detection, targetList, warnings,
                 declaredType, categorized, detectedType, chain, cli, run,
                 attempts, result, returned, calls, summary>>

NextAnalyze == AnalyzeStorageCleanup

SpecAnalyze == InitAnalyze /\ [][NextAnalyze]_vars

-----------------------------------------------------------------------------
(* executeDeletionPlan on a plan over a listed wallet, and deleteBlobSafely *)
(* on one of its blobs.                                                     *)

\* Blobs of a wallet whose plan is executed.
MaxTargets == 2

ExecuteKinds ==
  { \* old image the owner made deletable, on the network, naming nothing
    Kind(Type_image_png, FALSE, "true", Today - (OneYear + 1), 5, 7, <<NoZip(Bytes_png, FALSE, <<>>)>>),
    \* expired image the owner made deletable, gone from the network
    Kind(Type_image_png, TRUE, "true", Undefined, 5, 7, <<>>),
    \* recent text the owner did not make deletable, on the network
    Kind(<<>>, FALSE, "undefined", Today - 1, 5, 7, <<NoZip(Text_plain, FALSE, <<>>)>>),
    \* old text the owner made deletable, naming blobs 2 and 1
    Kind(<<>>, FALSE, "true", Today - (OneYear + 1), 5, 7, <<NoZip(Text_plain, FALSE, <<2, 1, 2>>)>>) }

\* The outcomes of the HEAD request for a blob.
InfoOutcomes(net, blobId) ==
  IF net[blobId] = <<>> THEN {"notFound", "error"} ELSE {"ok", "error"}

\* The answers the caller and the network have for one target, whichever requests are made.
Dispositions(net, blobId, confirms) ==
  UNION { { [confirm |-> c, info |-> i, header |-> h, readRef |-> r, exists |-> e, exit |-> x,
             info2 |-> "skipped", fate |-> NoFate] :
            c \in confirms, i \in InfoOutcomes(net, blobId), h \in {<<>>, Type_image_png},
            e \in ExistsOutcomes(net, blobId, r), x \in {"zero", "nonzero"} } :
          r \in ReadOutcomes(net, blobId, TRUE) }

\* The attempt with the requests that one pass of executeDeletionPlan does not make skipped.
Made(att, net, blobId) ==
  LET confirmed == att.confirm \in {"true", "absent"}
      blobInfo == getBlobInfo(net, blobId, att.info, att.header)
      found == confirmed /\ blobInfo.status = "fulfilled" /\ blobInfo.value # <<>>
      lookup == found /\ blobInfo.value[1].isDeletable = "true"
      deletes == lookup /\ Len(getBlobsReferencedBy(net, blobId, att.readRef, att.exists)) = 0
  IN  [att EXCEPT !.info = IF confirmed THEN @ ELSE "skipped",
                  !.header = IF found THEN @ ELSE <<>>,
                  !.readRef = IF lookup THEN @ ELSE "skipped",
                  !.exists = IF lookup THEN @ ELSE {},
                  !.exit = IF deletes THEN @ ELSE "skipped"]

\* The requests of findBlobClassification, made after a deletion that succeeded.
Followed(att, net, blobId, t) ==
  IF att.confirm \in {"true", "absent"} /\ deleteBlobSafely(net, blobId, att).returned
  THEN UNION { { [att EXCEPT !.info2 = i, !.fate = f] :
                 f \in IF getBlobInfo(net, blobId, i, att.header).value = <<>> THEN {NoFate}
                       ELSE FateSet(getBlobInfo(net, blobId, i, att.header).value[1], net, t) } :
               i \in InfoOutcomes(net, blobId) }
  ELSE {att}

AttemptSet(net, blobId, confirms, t) ==
  UNION { Followed(Made(att, net, blobId), net, blobId, t) : att \in Dispositions(net, blobId, confirms) }

RECURSIVE AttemptSeqs(_, _, _, _, _)
AttemptSeqs(net, blobsToDelete, confirms, t, n) ==
  IF n = 0 THEN {<<>>}
  ELSE {Append(atts, att) : atts \in AttemptSeqs(net, blobsToDelete, confirms, t, n - 1),
                            att \in AttemptSet(net, blobsToDelete[n], confirms, t)}

\* The plans over a wallet of n blobs: some of its blobs, in the order they are listed.
Plans(n) ==
  { [blobsToDelete |-> SelectSeq([i \in 1..n |-> i], LAMBDA i : i \in S)] : S \in SUBSET (1..n) }

InitExecute ==
  /\ pc = "idle"
  /\ now = Today * TicksPerDay
  /\ \E ks \in SeqsUpTo(ExecuteKinds, MaxTargets) :
       /\ blobs = BatchOf(ks, 0)
       /\ store = StoreOf(ks, 0)
  /\ options = NoOptions
  /\ fates = <<>>
  /\ classifications = <<>>
  /\ plan = <<>>
  /\ siteContent = <<>>
  /\ detection = <<>>
  /\ targetList = <<>>
  /\ warnings = <<>>
  /\ declaredType = <<>>
  /\ categorized = <<>>
  /\ detectedType = <<>>
  /\ chain = <<>>
  /\ cli = <<>>
  /\ run = <<>>
  /\ analysis = <<>>
  /\ attempts = <<>>
  /\ result = <<>>
  /\ returned = <<>>
  /\ calls = <<>>
  /\ summary = <<>>

ExecuteFrame ==
  UNCHANGED <<now, store, blobs, options, fates, classifications, siteContent, detection, targetList,
              warnings, declaredType, categorized, detectedType, chain, cli, run, analysis,
                 summary>>

\* executeDeletionPlan(plan, confirmCallback?)
ExecuteDeletionPlan ==
  /\ pc = "idle"
  /\ \E p \in Plans(Len(blobs)) :
       \E confirms \in {{"absent"}, {"true", "false", "throw"}} :
         \E atts \in AttemptSeqs(store, p.blobsToDelete, confirms, now, Len(p.blobsToDelete)) :
           \E done \in {executeDeletionPlan(store, p.blobsToDelete, atts, now, Len(p.blobsToDelete))} :
             /\ plan' = <<p>>
             /\ attempts' = atts
             /\ result' = <<done.result>>
             /\ calls' = <<done.calls>>
  /\ pc' = "executeDeletionPlan"
  /\ UNCHANGED returned
  /\ ExecuteFrame

\* deleteBlobSafely(blobId)
DeleteBlobSafely ==
  /\ pc = "idle"
  /\ \E blobId \in 1..Len(blobs) :
       \E att \in Dispositions(store, blobId, {"absent"}) :
         \E safely \in {deleteBlobSafely(store, blobId, att)} :
           /\ attempts' = <<att>>
           /\ returned' = <<safely.returned>>
           /\ calls' = <<[deleteBlobSafely |-> <<blobId>>, deleteBlob |-> safely.deleteBlob]>>
  /\ pc' = "deleteBlobSafely"
  /\ UNCHANGED <<plan, result, summary>>
  /\ ExecuteFrame

NextExecute == ExecuteDeletionPlan \/ DeleteBlobSafely

SpecExecute == InitExecute /\ [][NextExecute]_vars

-----------------------------------------------------------------------------
(* detectWalrusSite on a buffer. *)

\* Entries of an archive drawn for the site detector.
MaxEntries == 2

Path_sub_index_html == <<"s","u","b">> \o s_slash_index_html
Path_myindex_html == <<"m","y">> \o s_index_html
Path_sub_dir == <<"s","u","b","/">>

SiteEntries ==
  { [path |-> p, dir |-> FALSE, readable |-> r] :
      p \in {s_index_html, Path_sub_index_html, Path_myindex_html, Path_style_css, s_headers},
      r \in BOOLEAN }
  \cup { [path |-> Path_sub_dir, dir |-> TRUE, readable |-> TRUE] }

\* An archive keeps one entry per path.
DistinctPaths(entries) ==
  \A i, j \in 1..Len(entries) : entries[i].path = entries[j].path => i = j

\* Archives as bytes: with nothing legible in them, or with markup legible in
\* them (a page stored uncompressed, or the archive's comment).
Bytes_zip_stored == Bytes_zip \o Text_html

SiteContents ==
  { [bytes |-> b, zip |-> TRUE, entries |-> es, json |-> FALSE, mentions |-> <<>>] :
      b \in {Bytes_zip, Bytes_zip_stored},
      es \in {e \in SeqsUpTo(SiteEntries, MaxEntries) : DistinctPaths(e)} }
  \cup { NoZip(b, FALSE, <<>>) : b \in {Text_html, Text_plain, Bytes_png, Bytes_zip, <<>>} }

InitSite ==
  /\ pc = "idle"
  /\ now = Today * TicksPerDay
  /\ store = <<>>
  /\ blobs = <<>>
  /\ options = NoOptions
  /\ fates = <<>>
  /\ classifications = <<>>
  /\ plan = <<>>
  /\ \E c \in SiteContents : siteContent = <<c>>
  /\ detection = <<>>
  /\ targetList = <<>>
  /\ warnings = <<>>
  /\ declaredType = <<>>
  /\ categorized = <<>>
  /\ detectedType = <<>>
  /\ chain = <<>>
  /\ cli = <<>>
  /\ run = <<>>
  /\ analysis = <<>>
  /\ attempts = <<>>
  /\ result = <<>>
  /\ returned = <<>>
  /\ calls = <<>>
  /\ summary = <<>>

DetectWalrusSite ==
  /\ pc = "idle"
  /\ siteContent # <<>>
  /\ detection' = <<detectWalrusSite(siteContent[1], 1)>>
  /\ pc' = "detectWalrusSite"
  /\ UNCHANGED <<now, store, blobs, options, fates, classifications, plan, siteContent,
                 targetList, warnings, declaredType, categorized,
                 detectedType, chain, cli, run, analysis, attempts, result,
                 returned, calls, summary>>

NextSite == DetectWalrusSite

SpecSite == InitSite /\ [][NextSite]_vars

-----------------------------------------------------------------------------
(* categorizeFromContentType on a declared type. *)

\* Letters a type is varied with.
ToUpperChar(c) ==
  IF \E i \in 1..Len(LowerCase) : LowerCase[i] = c
  THEN UpperCase[CHOOSE i \in 1..Len(LowerCase) : LowerCase[i] = c]
  ELSE c

ToUpperCase(s) == [i \in 1..Len(s) |-> ToUpperChar(s[i])]

MediaTypes ==
  { <<"t","e","x","t","/","h","t","m","l">>,
    <<"a","p","p","l","i","c","a","t","i","o","n","/","z","i","p">>,
    <<"i","m","a","g","e","/","p","n","g">>,
    <<"i","m","a","g","e","/","s","v","g","+","x","m","l">>,
    <<"v","i","d","e","o","/","m","p","4">>,
    <<"a","u","d","i","o","/","m","p","e","g">>,
    <<"a","p","p","l","i","c","a","t","i","o","n","/","p","d","f">>,
    <<"t","e","x","t","/","p","l","a","i","n">>,
    <<"t","e","x","t","/","x","m","l">>,
    <<"t","e","x","t","/","j","a","v","a","s","c","r","i","p","t">>,
    <<"t","e","x","t","/","x","-","p","y","t","h","o","n">>,
    <<"a","p","p","l","i","c","a","t","i","o","n","/","m","s","w","o","r","d">>,
    <<"a","p","p","l","i","c","a","t","i","o","n","/","v","n","d",".","o","p","e","n","x","m","l","f","o","r","m","a","t","s","-","o","f","f","i","c","e","d","o","c","u","m","e","n","t",".","w","o","r","d","p","r","o","c","e","s","s","i","n","g","m","l",".","d","o","c","u","m","e","n","t">>,
    <<"a","p","p","l","i","c","a","t","i","o","n","/","v","n","d",".","o","a","s","i","s",".","o","p","e","n","d","o","c","u","m","e","n","t",".","t","e","x","t">>,
    <<"a","p","p","l","i","c","a","t","i","o","n","/","g","z","i","p">>,
    <<"a","p","p","l","i","c","a","t","i","o","n","/","x","-","t","a","r">>,
    <<"a","p","p","l","i","c","a","t","i","o","n","/","x","-","r","a","r","-","c","o","m","p","r","e","s","s","e","d">>,
    <<"a","p","p","l","i","c","a","t","i","o","n","/","x","-","7","z","-","c","o","m","p","r","e","s","s","e","d">>,
    <<"m","u","l","t","i","p","a","r","t","/","x","-","z","i","p">>,
    <<"a","p","p","l","i","c","a","t","i","o","n","/","j","a","v","a","s","c","r","i","p","t">>,
    <<"a","p","p","l","i","c","a","t","i","o","n","/","t","y","p","e","s","c","r","i","p","t">>,
    <<"a","p","p","l","i","c","a","t","i","o","n","/","j","s","o","n">>,
    <<"a","p","p","l","i","c","a","t","i","o","n","/","x","m","l">>,
    <<"a","p","p","l","i","c","a","t","i","o","n","/","o","c","t","e","t","-","s","t","r","e","a","m">>,
    <<"b","i","n","a","r","y","/","o","c","t","e","t","-","s","t","r","e","a","m">>,
    <<"m","o","d","e","l","/","g","l","t","f","-","b","i","n","a","r","y">>,
    <<"f","o","n","t","/","w","o","f","f">>,
    <<"x","-","i","m","a","g","e","/","p","n","g">>,
    <<"i","n","o","d","e","/","d","i","r","e","c","t","o","r","y">>,
    <<>> }

\* Parameters a declared type can carry.
TypeParameters == {<<>>, <<";"," ","c","h","a","r","s","e","t","=","u","t","f","-","8">>, <<";","s","i","t","e">>}

DeclaredTypes ==
  { t \o q : t \in MediaTypes, q \in TypeParameters }
  \cup { ToUpperCase(t) : t \in MediaTypes }

InitCategorize ==
  /\ pc = "idle"
  /\ now = Today * TicksPerDay
  /\ store = <<>>
  /\ blobs = <<>>
  /\ options = NoOptions
  /\ fates = <<>>
  /\ classifications = <<>>
  /\ plan = <<>>
  /\ siteContent = <<>>
  /\ detection = <<>>
  /\ targetList = <<>>
  /\ warnings = <<>>
  /\ declaredType \in DeclaredTypes
  /\ categorized = <<>>
  /\ detectedType = <<>>
  /\ chain = <<>>
  /\ cli = <<>>
  /\ run = <<>>
  /\ analysis = <<>>
  /\ attempts = <<>>
  /\ result = <<>>
  /\ returned = <<>>
  /\ calls = <<>>
  /\ summary = <<>>

CategorizeFromContentType ==
  /\ pc = "idle"
  /\ categorized' = <<categorizeFromContentType(declaredType)>>
  /\ pc' = "categorizeFromContentType"
  /\ UNCHANGED <<now, store, blobs, options, fates, classifications, plan, siteContent, detection,
                 targetList, warnings, declaredType, detectedType, chain, cli,
                 run, analysis, attempts, result, returned, calls, summary>>

\* The wallets summarized: a blob of the declared type, alone or followed by a listed image.
SummaryWallets(type) ==
  { BatchOf(<<[blob |-> [Filler EXCEPT !.contentType = type, !.isExpired = ex, !.isDeletable = del],
               content |-> <<>>]>>, n) :
    ex \in BOOLEAN, del \in {"true", "undefined"}, n \in 0..1 }

\* getWalletBlobSummaryFromBlobs(walletAddress, blobs)
GetWalletBlobSummaryFromBlobs ==
  /\ pc = "idle"
  /\ \E batch \in SummaryWallets(declaredType) :
       /\ blobs' = batch
       /\ summary' = <<getWalletBlobSummaryFromBlobs("wallet", batch)>>
  /\ pc' = "getWalletBlobSummaryFromBlobs"
  /\ UNCHANGED <<now, store, options, fates, classifications, plan, siteContent, detection,
                 targetList, warnings, declaredType, categorized, detectedType, chain, cli,
                 run, analysis, attempts, result, returned, calls>>

NextCategorize == CategorizeFromContentType \/ GetWalletBlobSummaryFromBlobs

SpecCategorize == InitCategorize /\ [][NextCategorize]_vars

-----------------------------------------------------------------------------
(* detectContentType on a buffer and a provided type. *)

\* a page after a blank line
Text_html_late == <<"\n">> \o Text_html
\* text with the letters PK in it
Text_upkeep == <<"U","P","K","E","E","P">>
\* text with PK after more than a signature of text
Text_pk_far == [i \in 1..SnifferSignatureLen |-> " "] \o s_PK
Bytes_binary == <<"x00","x01","x02","A">>
\* markup after binary bytes
Bytes_binary_html == <<"x00","x01","x02">> \o s_html_tag \o <<">">>

SniffContents ==
  { NoZip(b, FALSE, <<>>) :
      b \in {Text_html, Text_doctype, Text_html_late, Text_html_far, Text_plain, Text_upkeep, Text_pk_far,
             Bytes_png, Bytes_binary, Bytes_binary_html, <<>>} }
  \cup { NoZip(Text_json, TRUE, <<>>), Zip(<<File(s_index_html)>>), Zip(<<>>) }

ProvidedTypes ==
  { <<>>, s_octet_stream, ToUpperCase(s_octet_stream), s_text_html, Type_image_png, s_application_zip,
    s_text_plain, s_application_json }

InitSniff ==
  /\ pc = "idle"
  /\ now = Today * TicksPerDay
  /\ store = <<>>
  /\ blobs = <<>>
  /\ options = NoOptions
  /\ fates = <<>>
  /\ classifications = <<>>
  /\ plan = <<>>
  /\ \E c \in SniffContents : siteContent = <<c>>
  /\ detection = <<>>
  /\ targetList = <<>>
  /\ warnings = <<>>
  /\ declaredType \in ProvidedTypes
  /\ categorized = <<>>
  /\ detectedType = <<>>
  /\ chain = <<>>
  /\ cli = <<>>
  /\ run = <<>>
  /\ analysis = <<>>
  /\ attempts = <<>>
  /\ result = <<>>
  /\ returned = <<>>
  /\ calls = <<>>
  /\ summary = <<>>

DetectContentType ==
  /\ pc = "idle"
  /\ siteContent # <<>>
  /\ detectedType' = <<detectContentType(siteContent[1], declaredType)>>
  /\ pc' = "detectContentType"
  /\ UNCHANGED <<now, store, blobs, options, fates, classifications, plan, siteContent, detection,
                 targetList, warnings, declaredType, categorized, chain, cli,
                 run, analysis, attempts, result, returned, calls, summary>>

NextSniff == DetectContentType

SpecSniff == InitSniff /\ [][NextSniff]_vars

-----------------------------------------------------------------------------
(* The cleanup command on a wallet.                                        *)
(* Wallets hold up to MaxObjects blob objects, deletable or not, and one   *)
(* wallet holds more deletable blobs than a batch takes.  Sites refer to   *)
(* blobs of the wallet and to a blob the small wallets do not hold.        *)
(* Fetches of objects fail, and checkboxes are ticked one by one, among    *)
(* the first MaxObjects entries only; the others go together, and the      *)
(* prompts of individual mode are declined among the first MaxObjects      *)
(* entries only.                                                           *)

MaxObjects == 2
MaxSites == 2

Site_one == <<1>>
Site_both == <<1, 2>>
Site_other == <<2, 3>>
SiteKinds == {Site_one, Site_both, Site_other}

WalletObjects ==
  UNION { { [k \in 1..n |-> [blobId |-> k, deletable |-> flags[k]]] : flags \in [1..n -> BOOLEAN] } :
            n \in 0..MaxObjects }
  \cup { [k \in 1..(BatchSize + 1) |-> [blobId |-> k, deletable |-> TRUE]] }

Chains ==
  { [objects |-> objects, sites |-> sites] :
      objects \in WalletObjects, sites \in SeqsUpTo(SiteKinds, MaxSites) }

CleanupOptions == { [force |-> f, dryRun |-> d] : f \in BOOLEAN, d \in BOOLEAN }

\* the outcomes of n calls, of which only the first MaxObjects may fail
Outcomes(n) ==
  { [k \in 1..n |-> IF k <= MaxObjects THEN o[k] ELSE "ok"] : o \in [1..MaxObjects -> {"ok", "fail"}] }

\* the ticked entries of a checkbox over list
Ticked(list) ==
  { SelectSeq([k \in 1..Len(list) |-> k],
              LAMBDA k : IF k <= MaxObjects THEN k \in first ELSE rest) :
      first \in SUBSET (1..MaxObjects), rest \in BOOLEAN }

InitCleanup ==
  /\ pc = "idle"
  /\ now = Today * TicksPerDay
  /\ store = <<>>
  /\ blobs = <<>>
  /\ options = NoOptions
  /\ fates = <<>>
  /\ classifications = <<>>
  /\ plan = <<>>
  /\ siteContent = <<>>
  /\ detection = <<>>
  /\ targetList = <<>>
  /\ warnings = <<>>
  /\ declaredType = <<>>
  /\ categorized = <<>>
  /\ detectedType = <<>>
  /\ \E ch \in Chains : chain = <<ch>>
  /\ \E opts \in CleanupOptions : cli = <<opts>>
  /\ run = <<>>
  /\ analysis = <<>>
  /\ attempts = <<>>
  /\ result = <<>>
  /\ returned = <<>>
  /\ calls = <<>>
  /\ summary = <<>>

CleanupFrame ==
  UNCHANGED <<now, store, blobs, options, fates, classifications, plan, siteContent, detection,
              targetList, warnings, declaredType, categorized, detectedType, chain, cli,
                 analysis, attempts, result, returned, calls, summary>>

\* Lines 33-69: validation, then the listing of the wallet's blobs.
ListBlobsForWallet ==
  /\ pc = "idle"
  /\ chain # <<>>
  /\ \E outcome \in {"ok", "fail"} :
       IF outcome = "fail"
       THEN pc' = "exit" /\ run' = <<NoRun>>
       ELSE /\ run' = <<NoRun>>
            /\ pc' = IF Len(listBlobsForWallet(chain[1])) = 0 THEN "done" ELSE "queryWalrusSites"
  /\ CleanupFrame

\* Lines 76-78, and lines 90-102 when the wallet shows no site.
QueryWalrusSites ==
  /\ pc = "queryWalrusSites"
  /\ \E outcome \in {"ok", "fail"} :
       LET walrusSites == queryWalrusSites(chain[1], outcome)
           r == [run[1] EXCEPT !.walrusSites = walrusSites, !.site = 1]
           after == AfterSites(chain[1], r)
       IN  IF Len(walrusSites) = 0
           THEN pc' = after.pc /\ run' = <<after.run>>
           ELSE pc' = "getSiteBlobIds" /\ run' = <<r>>
  /\ CleanupFrame

\* Lines 79-88 for one site, and lines 90-102 after the last one.
GetSiteBlobIds ==
  /\ pc = "getSiteBlobIds"
  /\ \E outcome \in {"ok", "fail"} :
       \E fetched \in [1..Len(chain[1].sites[run[1].walrusSites[run[1].site]]) -> BOOLEAN] :
         LET siteBlobs == getSiteBlobIds(chain[1], run[1].walrusSites[run[1].site], outcome, fetched)
             r == [run[1] EXCEPT !.siteBlobIds = @ \cup {siteBlobs[k] : k \in 1..Len(siteBlobs)},
                                 !.site = @ + 1]
             after == AfterSites(chain[1], r)
         IN  IF r.site > Len(r.walrusSites)
             THEN pc' = after.pc /\ run' = <<after.run>>
             ELSE pc' = "getSiteBlobIds" /\ run' = <<r>>
  /\ CleanupFrame

\* Lines 104-149.
EstimateDeletionCosts ==
  /\ pc = "estimateDeletionCosts"
  /\ \E outcomes \in Outcomes(Len(chain[1].objects)) :
       LET r == [run[1] EXCEPT !.costEstimates = estimateDeletionCosts(chain[1], run[1].orphanBlobs, outcomes)]
           after == AfterEstimates(r, cli[1])
       IN  pc' = after.pc /\ run' = <<after.run>>
  /\ CleanupFrame

\* Lines 151-168: the breakdown is shown or not.
ShowDetails ==
  /\ pc = "showDetails"
  /\ \E showDetails \in BOOLEAN : pc' = "processingMethod"
  /\ UNCHANGED run
  /\ CleanupFrame

\* Lines 170-188, and lines 208-235 unless the choice is selective.
ProcessingMethod ==
  /\ pc = "processingMethod"
  /\ \E processingMethod \in {"batch", "selective", "individual", "cancel"} :
       LET r == [run[1] EXCEPT !.processingMethod = processingMethod,
                               !.blobsToProcess = run[1].deletableBlobs]
           after == Summary(r, cli[1])
       IN  IF processingMethod = "cancel" THEN pc' = "done" /\ run' = <<[run[1] EXCEPT !.processingMethod = processingMethod]>>
           ELSE IF processingMethod = "selective" THEN pc' = "selectedBlobs" /\ run' = <<r>>
           ELSE pc' = after.pc /\ run' = <<after.run>>
  /\ CleanupFrame

\* Lines 190-235.
SelectedBlobs ==
  /\ pc = "selectedBlobs"
  /\ \E ticked \in Ticked(run[1].deletableBlobs) :
       LET selectedBlobs == [k \in 1..Len(ticked) |-> run[1].deletableBlobs[ticked[k]]]
           r == [run[1] EXCEPT !.blobsToProcess = selectedBlobs]
           after == Summary(r, cli[1])
       IN  IF Len(selectedBlobs) = 0
           THEN pc' = "done" /\ run' = <<r>>
           ELSE pc' = after.pc /\ run' = <<after.run>>
  /\ CleanupFrame

\* Lines 223-287 up to the first await.
FinalConfirmation ==
  /\ pc = "finalConfirmation"
  /\ \E finalConfirmation \in BOOLEAN :
       LET r == [run[1] EXCEPT !.finalConfirmation = IF finalConfirmation THEN "yes" ELSE "no"]
           after == Execute(r)
       IN  IF ~finalConfirmation
           THEN pc' = "done" /\ run' = <<r>>
           ELSE pc' = after.pc /\ run' = <<after.run>>
  /\ CleanupFrame

\* Lines 248-260: the prompt for one blob, and the call that deletes it.
ConfirmBlob ==
  /\ pc = "confirmBlob"
  /\ \E confirmBlob \in (IF run[1].i <= MaxObjects THEN BOOLEAN ELSE {TRUE}) :
       LET estimate == run[1].blobsToProcess[run[1].i]
           r == [run[1] EXCEPT !.confirmed = @ \cup {estimate.blobId}]
       IN  IF confirmBlob
           THEN pc' = "deleteBlobBatch" /\ run' = <<deleteBlobBatch(r, <<estimate>>)>>
           ELSE IF run[1].i < Len(run[1].blobsToProcess)
           THEN pc' = "confirmBlob" /\ run' = <<[run[1] EXCEPT !.i = @ + 1]>>
           ELSE pc' = "done" /\ run' = <<run[1]>>
  /\ CleanupFrame

\* Lines 261-268 and 277-285: the executor returns, and the loop goes on.
DeleteBlobBatch ==
  /\ pc = "deleteBlobBatch"
  /\ LET r == [run[1] EXCEPT !.i = @ + 1]
     IN  IF run[1].processingMethod = "individual"
         THEN /\ run' = <<IF r.i <= Len(r.blobsToProcess) THEN r ELSE run[1]>>
              /\ pc' = IF r.i <= Len(r.blobsToProcess) THEN "confirmBlob" ELSE "done"
         ELSE IF r.i <= r.batches
         THEN pc' = "deleteBlobBatch" /\ run' = <<deleteBlobBatch(r, BatchSlice(r.blobsToProcess, r.i))>>
         ELSE pc' = "done" /\ run' = <<run[1]>>
  /\ CleanupFrame

NextCleanup ==
  \/ ListBlobsForWallet
  \/ QueryWalrusSites
  \/ GetSiteBlobIds
  \/ EstimateDeletionCosts
  \/ ShowDetails
  \/ ProcessingMethod
  \/ SelectedBlobs
  \/ FinalConfirmation
  \/ ConfirmBlob
  \/ DeleteBlobBatch

SpecCleanup == InitCleanup /\ [][NextCleanup]_vars

-----------------------------------------------------------------------------
(* Properties of classifyBlob, under SpecClassify. *)

Classified == pc = "classifyBlob" /\ Len(classifications) = 1

\* C1: owner veto. A blob whose deletable flag is false or absent is
\* classified with canDelete = false, whatever its expiry, category,
\* importance, age and references are; and classifyBlob does return.
C1_OwnerVeto ==
  pc = "classifyBlob" =>
    /\ Len(classifications) = 1
    /\ blobs[1].isDeletable # "true" => ~classifications[1].canDelete

\* An expired blob created without the flag has been classified: disposable, not deletable.
C1_Witness ==
  /\ Classified
  /\ blobs[1].isDeletable = "undefined"
  /\ blobs[1].isExpired
  /\ classifications[1].importance = "disposable"
  /\ classifications[1].referencedBy = <<>>
  /\ ~classifications[1].canDelete

\* C2: in every returned classification canDelete implies that importance is
\* not critical and that referencedBy is empty; a blob with a non-empty
\* referencedBy is never deletable, expired or not.
C2_DeletableUnreferenced ==
  Classified =>
    /\ classifications[1].canDelete =>
         classifications[1].importance # "critical" /\ classifications[1].referencedBy = <<>>
    /\ classifications[1].referencedBy # <<>> => ~classifications[1].canDelete

\* An expired, owner-deletable blob with a reference has been classified: not deletable.
C2_Witness ==
  /\ Classified
  /\ blobs[1].isExpired
  /\ blobs[1].isDeletable = "true"
  /\ classifications[1].referencedBy = <<2>>
  /\ ~classifications[1].canDelete

\* C3 as stated: an expired blob is disposable, and deletable exactly when the
\* owner's flag is set, whatever its references are.
C3_ExpiryDominatesAll ==
  Classified /\ blobs[1].isExpired =>
    /\ classifications[1].importance = "disposable"
    /\ classifications[1].canDelete <=> blobs[1].isDeletable = "true"

\* C3 as amended: an expired blob is disposable whatever its category, age and
\* content are, and it is deletable exactly when the owner's flag is set and
\* referencedBy is empty.
C3_ExpiryDominates ==
  Classified /\ blobs[1].isExpired =>
    /\ classifications[1].importance = "disposable"
    /\ classifications[1].canDelete <=>
         blobs[1].isDeletable = "true" /\ classifications[1].referencedBy = <<>>

\* An expired website blob, recent and readable as a site, is disposable and deletable.
C3_Witness ==
  /\ Classified
  /\ blobs[1].isExpired
  /\ blobs[1].isDeletable = "true"
  /\ blobs[1].createdEpoch = Today - 1
  /\ classifications[1].category = "website"
  /\ store[1] # <<>> /\ detectWalrusSite(store[1][1], 1).isWalrusSite
  /\ classifications[1].importance = "disposable"
  /\ classifications[1].canDelete

\* C8: deleteReason is present exactly when canDelete is true.
C8_ReasonIffDeletable ==
  Classified => (classifications[1].deleteReason # <<>> <=> classifications[1].canDelete)

\* A deletable classification carrying the age reason, and so not an expired one.
C8_Witness ==
  /\ Classified
  /\ classifications[1].canDelete
  /\ classifications[1].deleteReason = <<"Low importance and older than 1 year">>

-----------------------------------------------------------------------------
(* Properties of classifyBlobs and createDeletionPlan, under SpecPlan. *)

PlanMade == pc = "createDeletionPlan" /\ plan # <<>>

TargetIds == {plan[1].blobsToDelete[i] : i \in 1..Len(plan[1].blobsToDelete)}

\* The positions, in the classifications, of the plan's targets.
Targets == {j \in 1..Len(classifications) : classifications[j].blobId \in TargetIds}

RECURSIVE SumOver(_, _)
SumOver(S, f) ==
  IF S = {} THEN 0
  ELSE LET x == CHOOSE y \in S : TRUE IN f[x] + SumOver(S \ {x}, f)

\* C4: every id of blobsToDelete is the id of a classified blob, and every
\* classification with that id has canDelete = true.
C4_TargetsDeletable ==
  pc = "createDeletionPlan" =>
    /\ plan # <<>>
    /\ \A id \in TargetIds :
         /\ \E j \in 1..Len(classifications) : classifications[j].blobId = id
         /\ \A j \in 1..Len(classifications) :
              classifications[j].blobId = id => classifications[j].canDelete

\* A plan under an include filter that takes one blob and leaves a non-deletable one.
C4_Witness ==
  /\ PlanMade
  /\ options.includeCategories # <<>>
  /\ Cardinality(TargetIds) = 1
  /\ \E j \in 1..Len(classifications) :
       ~classifications[j].canDelete /\ classifications[j].category = "image"

\* The filter set as the claim reads it: a filter is supplied when its option is present.
PassesFilters(c, opts) ==
  /\ c.canDelete
  /\ opts.includeCategories # <<>> => ListIncludes(opts.includeCategories[1], c.category)
  /\ opts.excludeCategories # <<>> => ~ListIncludes(opts.excludeCategories[1], c.category)
  /\ opts.maxImportance # <<>> =>
       IndexOf(importanceOrder, c.importance) <= IndexOf(importanceOrder, opts.maxImportance[1])
  /\ opts.minSizeBytes # Undefined => opts.minSizeBytes <= c.sizeBytes
  /\ opts.maxSizeBytes # Undefined => c.sizeBytes <= opts.maxSizeBytes

\* C5: a classification is a target if and only if it is deletable and
\* satisfies every filter supplied, a size bound of 0 included.
C5_FiltersAnd ==
  PlanMade =>
    \A j \in 1..Len(classifications) :
      j \in Targets <=> PassesFilters(classifications[j], options)

\* C7: totalSizeReduction is the sum of the targets' sizeBytes, costSavings the
\* sum of their storageCost with a missing cost counted as 0, each category
\* count the number of targets of that category, and the counts sum to the
\* number of targets.
C7_Aggregates ==
  PlanMade =>
    /\ plan[1].totalSizeReduction = SumOver(Targets, [j \in Targets |-> classifications[j].sizeBytes])
    /\ plan[1].costSavings =
         SumOver(Targets, [j \in Targets |->
                             IF classifications[j].storageCost = Undefined THEN 0
                             ELSE classifications[j].storageCost])
    /\ \A category \in Categories :
         plan[1].categories[category] =
           Cardinality({j \in Targets : classifications[j].category = category})
    /\ SumOver(Categories, plan[1].categories) = Len(plan[1].blobsToDelete)
    /\ Len(plan[1].blobsToDelete) = Cardinality(Targets)

\* A plan of one target with a cost and one without, in two categories.
C7_Witness ==
  /\ PlanMade
  /\ Len(plan[1].blobsToDelete) = 2
  /\ \E j \in Targets : classifications[j].storageCost = Undefined
  /\ plan[1].costSavings = 7
  /\ plan[1].totalSizeReduction = LargeBlobBytes + 6
  /\ plan[1].categories["website"] = 1
  /\ plan[1].categories["image"] = 1

\* C9: classifyBlobs returns, in input order, one classification per input
\* blob, carrying that blob's id, and the classification of a blob is the one
\* its own requests' outcomes give it, whatever failed for the other blobs.
C9_FailureIsolation ==
  pc = "classifyBlobs" =>
    /\ Len(classifications) = Len(blobs)
    /\ \A i \in 1..Len(blobs) :
         /\ classifications[i].blobId = blobs[i].blobId
         /\ \A j \in 1..Len(classifications) :
              classifications[j].blobId = blobs[i].blobId => j = i
         /\ classifyBlob(blobs[i], store, fates[i], now).value = <<classifications[i]>>

\* Every read of the first blob failed, every read of the second succeeded, and both are classified.
C9_Witness ==
  /\ pc = "classifyBlobs"
  /\ Len(blobs) = 2
  /\ fates[1].readCat = "fail" /\ fates[1].readRef1 = "fail" /\ fates[1].readRef2 = "fail"
  /\ fates[2].readImp = "ok" /\ fates[2].readRef2 = "ok"
  /\ classifications[1].category = "unknown"
  /\ classifications[2].importance = "important"

-----------------------------------------------------------------------------
(* Properties of the plan's warnings, under SpecVolume. *)

\* The warnings due for the targets at the positions S of the list cs.
WarningsDue(cs, S) ==
  LET websites == {j \in S : cs[j].category = "website"}
      important == {j \in S : cs[j].importance = "important"}
      large == {j \in S : cs[j].sizeBytes > 10 * 1024 * 1024}
  IN  (IF websites # {}
       THEN <<[message |-> "website(s) will be deleted", count |-> Cardinality(websites)]>>
       ELSE <<>>)
      \o (IF important # {}
          THEN <<[message |-> "important blob(s) will be deleted", count |-> Cardinality(important)]>>
          ELSE <<>>)
      \o (IF large # {}
          THEN <<[message |-> "large blob(s) (>10MB) will be deleted", count |-> Cardinality(large)]>>
          ELSE <<>>)
      \o (IF Cardinality(S) > 50
          THEN <<[message |-> "Large number of blobs to delete", count |-> Cardinality(S)]>>
          ELSE <<>>)

\* C6: the warnings are, in this order and each only when its condition holds
\* of the targets: the count of website targets when there is one, the count
\* of targets of importance important when there is one, the count of targets
\* strictly larger than 10 MiB when there is one, and the number of targets
\* when it is strictly greater than 50; so 60 plain targets draw the volume
\* warning alone.  It holds of the warnings of a plan and of the warnings
\* generateWarnings returns for a list of targets.
C6_Warnings ==
  /\ PlanMade =>
       /\ Len(plan[1].blobsToDelete) = Cardinality(Targets)
       /\ plan[1].warnings = WarningsDue(classifications, Targets)
  /\ pc = "generateWarnings" =>
       warnings = WarningsDue(targetList, 1..Len(targetList))

\* Sixty targets, none a website, important or large: the volume warning alone.
C6_Witness ==
  /\ PlanMade
  /\ Len(plan[1].blobsToDelete) = ScenarioBlobs
  /\ \A j \in Targets :
       /\ classifications[j].category # "website"
       /\ classifications[j].importance # "important"
       /\ classifications[j].sizeBytes <= LargeBlobBytes
  /\ plan[1].warnings = <<[message |-> "Large number of blobs to delete", count |-> ScenarioBlobs]>>

-----------------------------------------------------------------------------
(* Properties of detectWalrusSite, under SpecSite. *)

Detected == pc = "detectWalrusSite" /\ detection # <<>>

\* An archive that loads and whose entries all decompress.
SoundArchive(content) ==
  content.zip /\ \A i \in 1..Len(content.entries) : content.entries[i].readable

HasFile(content) == \E i \in 1..Len(content.entries) : ~content.entries[i].dir

HasIndexPage(content) ==
  \E i \in 1..Len(content.entries) :
    ~content.entries[i].dir /\ IsIndexPath(content.entries[i].path)

\* C10: an archive with index.html at its root is reported as a site with
\* hasIndexHtml = true and isFileDirectory = false; an archive with at least
\* one file and no index page is reported as a site with isFileDirectory =
\* true and a non-empty resource list.
C10_ArchiveSites ==
  Detected /\ SoundArchive(siteContent[1]) =>
    /\ (\E i \in 1..Len(siteContent[1].entries) : siteContent[1].entries[i].path = s_index_html) =>
         /\ detection[1].isWalrusSite
         /\ detection[1].siteInfo # <<>>
         /\ detection[1].siteInfo[1].hasIndexHtml
         /\ ~detection[1].siteInfo[1].isFileDirectory
    /\ HasFile(siteContent[1]) /\ ~HasIndexPage(siteContent[1]) =>
         /\ detection[1].isWalrusSite
         /\ detection[1].siteInfo # <<>>
         /\ detection[1].siteInfo[1].isFileDirectory
         /\ detection[1].siteInfo[1].resources # <<>>

\* C11: a site descriptor never has isFileDirectory and hasIndexHtml both
\* true, and has resources whenever isFileDirectory is true; an archive with
\* neither an index page nor any file entry is never reported as a site.
C11_SiteDescriptors ==
  Detected =>
    /\ detection[1].siteInfo # <<>> =>
         /\ ~(detection[1].siteInfo[1].isFileDirectory /\ detection[1].siteInfo[1].hasIndexHtml)
         /\ detection[1].siteInfo[1].isFileDirectory => detection[1].siteInfo[1].resources # <<>>
    /\ siteContent[1].zip /\ ~HasFile(siteContent[1]) => ~detection[1].isWalrusSite

-----------------------------------------------------------------------------
(* Properties of categorizeFromContentType, under SpecCategorize. *)

Categorized == pc = "categorizeFromContentType" /\ categorized # <<>>

\* The rules in their order, for a type in lower case: whether each matches,
\* and the category it gives.
TypeRules(type) ==
  << [matches |-> \/ Includes(type, <<"t","e","x","t","/","h","t","m","l">>)
                  \/ /\ Includes(type, <<"a","p","p","l","i","c","a","t","i","o","n","/","z","i","p">>)
                     /\ Includes(type, <<"s","i","t","e">>),
      category |-> "website"],
     [matches |-> StartsWith(type, <<"i","m","a","g","e","/">>), category |-> "image"],
     [matches |-> StartsWith(type, <<"v","i","d","e","o","/">>), category |-> "video"],
     [matches |-> StartsWith(type, <<"a","u","d","i","o","/">>), category |-> "audio"],
     [matches |-> \E w \in {<<"p","d","f">>, <<"d","o","c","u","m","e","n","t">>,
                            <<"a","p","p","l","i","c","a","t","i","o","n","/","m","s","w","o","r","d">>,
                            <<"a","p","p","l","i","c","a","t","i","o","n","/","v","n","d",".","o","p","e","n","x","m","l","f","o","r","m","a","t","s">>,
                            <<"t","e","x","t","/">>} : Includes(type, w),
      category |-> "document"],
     [matches |-> \E w \in {<<"z","i","p">>, <<"t","a","r">>, <<"r","a","r">>, <<"7","z">>,
                            <<"g","z","i","p">>} : Includes(type, w),
      category |-> "archive"],
     [matches |-> \E w \in {<<"j","a","v","a","s","c","r","i","p","t">>, <<"t","y","p","e","s","c","r","i","p","t">>,
                            <<"p","y","t","h","o","n">>, <<"j","s","o","n">>, <<"x","m","l">>} : Includes(type, w),
      category |-> "code"],
     [matches |-> \E w \in {<<"a","p","p","l","i","c","a","t","i","o","n","/">>,
                            <<"b","i","n","a","r","y">>} : Includes(type, w),
      category |-> "data"] >>

\* C12: every declared type gets exactly one of the nine categories, that of
\* the first rule, in the order website, image/video/audio, document,
\* archive, code, data, that matches the type (taken in lower case), and
\* unknown when none does; a type that matches several rules gets the
\* category of the earliest.
C12_FirstRuleWins ==
  Categorized =>
    LET rules == TypeRules(ToLowerCase(declaredType))
    IN  /\ categorized[1] \in Categories
        /\ \A k \in 1..Len(rules) :
             rules[k].matches /\ (\A j \in 1..(k - 1) : ~rules[j].matches)
               => categorized[1] = rules[k].category
        /\ (\A k \in 1..Len(rules) : ~rules[k].matches) => categorized[1] = "unknown"

\* text/xml matches the document rule and the code rule: it is a document.
C12_Witness ==
  /\ Categorized
  /\ declaredType = <<"t","e","x","t","/","x","m","l">>
  /\ TypeRules(declaredType)[5].matches
  /\ TypeRules(declaredType)[7].matches
  /\ categorized[1] = "document"

-----------------------------------------------------------------------------
(* Properties of detectContentType, under SpecSniff. *)

Sniffed == pc = "detectContentType" /\ detectedType # <<>>

\* The provided type is missing or is the fallback type.
NotAuthoritative(type) == type = <<>> \/ type = <<"a","p","p","l","i","c","a","t","i","o","n","/","o","c","t","e","t","-","s","t","r","e","a","m">>

\* C13: a provided type that is present (a non-empty string) and is not
\* application/octet-stream is returned unchanged, whatever the bytes.
C13_DeclaredTypeWins ==
  Sniffed /\ ~NotAuthoritative(declaredType) => detectedType[1] = declaredType

\* A page declared as an image is an image.
C13_Witness ==
  /\ Sniffed
  /\ declaredType = Type_image_png
  /\ siteContent[1].bytes = Text_html
  /\ detectedType[1] = Type_image_png

StartsAsPage(bytes) == StartsWith(bytes, s_doctype_html) \/ StartsWith(bytes, s_html_tag)

\* C14: with no authoritative provided type, bytes that start with
\* "<!DOCTYPE html" or "<html" give text/html; other bytes give
\* application/zip exactly when their first two bytes are "PK"; the sniffer
\* always returns a type, and it is application/octet-stream when the bytes
\* do not start as a page, do not start with "PK", are no JSON and are no text.
C14_SignatureSniffing ==
  Sniffed /\ NotAuthoritative(declaredType) =>
    LET bytes == siteContent[1].bytes
    IN  /\ StartsAsPage(bytes) => detectedType[1] = s_text_html
        /\ ~StartsAsPage(bytes) => (detectedType[1] = s_application_zip <=> Magic(bytes, "P", "K"))
        /\ detectedType[1] \in {s_text_html, s_application_zip, s_application_json, s_text_plain, s_octet_stream}
        /\ ~StartsAsPage(bytes) /\ ~Magic(bytes, "P", "K") /\ ~siteContent[1].json /\ ~isTextContent(siteContent[1])
             => detectedType[1] = s_octet_stream

-----------------------------------------------------------------------------
(* Properties of the cleanup command, under SpecCleanup. *)

\* the blob ids handed to the executor so far
Submitted == IF run = <<>> THEN {} ELSE {run[1].submitted[k] : k \in 1..Len(run[1].submitted)}

\* the blob ids that the sites of the scanned wallet refer to
SiteResources ==
  IF chain = <<>> THEN {}
  ELSE UNION { {chain[1].sites[s][k] : k \in 1..Len(chain[1].sites[s])} : s \in 1..Len(chain[1].sites) }

\* the wallet's blob object with this id carries the deletable flag
FlaggedDeletable(id) ==
  \E k \in 1..Len(chain[1].objects) : chain[1].objects[k].blobId = id /\ chain[1].objects[k].deletable

\* C15: in every run of the cleanup command, no blob that a site of the
\* scanned wallet refers to as a resource is handed to the deletion
\* executor; every blob handed to it is referenced by no site and its
\* on-chain object carries the deletable flag.
C15_OnlyOrphansSubmitted ==
  \A id \in Submitted : id \notin SiteResources /\ FlaggedDeletable(id)

\* C16: the cleanup command hands nothing to the executor in a run with
\* --dry-run, in a run where the user picks 'Cancel and exit', in a
\* selective run that selects no blob, and in a run without --force whose
\* final confirmation is declined; in individual mode every blob handed to
\* the executor had its own confirmation accepted before.
C16_NoDeletionWithoutConsent ==
  run # <<>> =>
    /\ cli[1].dryRun => run[1].submitted = <<>>
    /\ run[1].processingMethod = "cancel" => run[1].submitted = <<>>
    /\ (run[1].processingMethod = "selective" /\ run[1].blobsToProcess = <<>>) => run[1].submitted = <<>>
    /\ (~cli[1].force /\ run[1].finalConfirmation = "no") => run[1].submitted = <<>>
    /\ run[1].processingMethod = "individual" => Submitted \subseteq run[1].confirmed

\* an individual run without --force that is over: the final confirmation
\* was accepted, one blob was declined and another was deleted
C16_Witness ==
  /\ pc = "done" /\ run # <<>>
  /\ ~cli[1].force /\ ~cli[1].dryRun
  /\ run[1].processingMethod = "individual"
  /\ run[1].finalConfirmation = "yes"
  /\ run[1].submitted # <<>>
  /\ Len(run[1].submitted) < Len(run[1].blobsToProcess)

-----------------------------------------------------------------------------
(* Properties of determineImportance and canSafelyDelete, under SpecClassify. *)

\* determineImportance fetched the content of the classified blob
ContentFetched == readBlob(store, 1, fates[1].readImp) # <<>>

\* what site analysis makes of the content of the classified blob
SiteAnalysis == detectWalrusSite(store[1][1], 1)

\* the website rule recognized a site in the fetched content
SiteRecognized ==
  /\ classifications[1].category = "website"
  /\ ContentFetched
  /\ SiteAnalysis.isWalrusSite /\ SiteAnalysis.siteInfo # <<>>

\* C17: a non-expired blob of category website whose content is fetched and
\* in which site analysis recognizes a site is critical when the site has a
\* linked domain name and important when it has none, and it is not
\* deletable.  (Site analysis attaches no domain to the sites it describes,
\* so the sites met here are those without one.)
C17_SiteImportance ==
  Classified /\ ~blobs[1].isExpired /\ SiteRecognized =>
    /\ classifications[1].importance =
         (IF SiteAnalysis.siteInfo[1].domain # <<>> THEN "critical" ELSE "important")
    /\ ~classifications[1].canDelete

\* An old, owner-deletable, unreferenced page has been classified: a site
\* without a domain, important and kept.
C17_Witness ==
  /\ Classified /\ ~blobs[1].isExpired /\ SiteRecognized
  /\ blobs[1].isDeletable = "true"
  /\ blobs[1].createdEpoch = Today - (OneYear + 1)
  /\ classifications[1].referencedBy = <<>>
  /\ SiteAnalysis.siteInfo[1].domain = <<>>
  /\ classifications[1].importance = "important"
  /\ ~classifications[1].canDelete

\* C18: for a non-expired blob of category website, whenever site analysis
\* fails, because the content cannot be fetched or because no site is
\* recognized in it, importance is low: the reference and age rules do not
\* decide it.
C18_FailedAnalysisLow ==
  Classified /\ ~blobs[1].isExpired /\ classifications[1].category = "website"
    /\ (~ContentFetched \/ ~SiteAnalysis.isWalrusSite)
  => classifications[1].importance = "low"

\* what the reference lookup of determineImportance returned
LookedUp == findReferences(store, 1, fates[1].readRef1, fates[1].exists1)

\* the age of the classified blob in whole days between its createdEpoch and
\* the clock, one epoch being one day; 0 for a blob with no createdEpoch
AgeInDays ==
  IF blobs[1].createdEpoch = Undefined THEN 0
  ELSE Ceil(Abs(now - blobs[1].createdEpoch * TicksPerDay), TicksPerDay)

\* C19: for a non-expired blob to which the website rule does not apply,
\* importance is important if the reference lookup returns a non-empty
\* set, otherwise low if the age in days is strictly greater than 365,
\* otherwise normal; a blob with no createdEpoch has age 0.
C19_RemainingRules ==
  Classified /\ ~blobs[1].isExpired /\ classifications[1].category # "website" =>
    classifications[1].importance =
      (IF Len(LookedUp) > 0 THEN "important"
       ELSE IF AgeInDays > OneYear THEN "low"
       ELSE "normal")

\* C20: a non-expired blob is deletable exactly when its deletable flag is
\* true, referencedBy is empty, importance is low and its age is strictly
\* greater than 365 days, and its deleteReason is then "Low importance and
\* older than 1 year"; a non-expired blob of age 365 or less is not
\* deletable and carries no reason.
C20_AgeBoundary ==
  Classified /\ ~blobs[1].isExpired =>
    /\ classifications[1].canDelete <=>
         /\ blobs[1].isDeletable = "true"
         /\ classifications[1].referencedBy = <<>>
         /\ classifications[1].importance = "low"
         /\ AgeInDays > OneYear
    /\ classifications[1].canDelete =>
         classifications[1].deleteReason = <<"Low importance and older than 1 year">>
    /\ AgeInDays <= OneYear =>
         ~classifications[1].canDelete /\ classifications[1].deleteReason = <<>>

\* the ids in a list
Range(list) == {list[k] : k \in 1..Len(list)}

\* the other blobs of the network whose content mentions blob id
Incoming(id) ==
  {m \in (DOMAIN store) \ {id} : store[m] # <<>> /\ id \in Range(store[m][1].mentions)}

\* C21: referencedBy of a classified blob holds exactly the ids of the
\* other existing blobs that reference it, never its own id, and is empty
\* when the lookup fails; a blob that mentions other blobs but is mentioned
\* by none has an empty referencedBy.
C21_IncomingReferences ==
  Classified =>
    /\ 1 \notin Range(classifications[1].referencedBy)
    /\ fates[1].readRef2 # "ok" => classifications[1].referencedBy = <<>>
    /\ fates[1].readRef2 = "ok" => Range(classifications[1].referencedBy) = Incoming(1)
    /\ Incoming(1) = {} => classifications[1].referencedBy = <<>>

\* determineCategory fetched the content of the classified blob
CategoryFetched == readBlob(store, 1, fates[1].readCat) # <<>>

\* the category of the first signature that bytes match, in the order of
\* the list; json says whether the text parses as JSON
FirstSignature(bytes, json) ==
  LET text == Prefix(bytes, TextScanLen)
  IN  IF StartsWith(bytes, s_doctype_html) \/ StartsWith(bytes, s_html_tag) THEN "website"
      ELSE IF StartsWith(bytes, <<"P","K">>) THEN "archive"
      ELSE IF StartsWith(bytes, <<"xFF","xD8">>) \/ StartsWith(bytes, <<"x89","P">>)
              \/ StartsWith(bytes, <<"G","I">>) THEN "image"
      ELSE IF StartsWith(bytes, s_pdf_magic) THEN "document"
      ELSE IF json THEN "code"
      ELSE IF Includes(text, s_html_tag) \/ Includes(text, s_doctype) THEN "website"
      ELSE "unknown"

\* C22: for a blob with no declared type the category is that of the first
\* matching signature of the fetched bytes: HTML prefix, website; zip magic,
\* archive; JPEG, PNG or GIF magic, image; PDF magic, document; text that
\* parses as JSON, code; text containing <html or <!DOCTYPE, website;
\* otherwise unknown; and unknown when the content cannot be fetched.
C22_SignatureScan ==
  Classified /\ blobs[1].contentType = <<>> =>
    classifications[1].category =
      (IF CategoryFetched THEN FirstSignature(store[1][1].bytes, store[1][1].json) ELSE "unknown")

-----------------------------------------------------------------------------
(* Properties of generateRecommendations, under SpecAnalyze. *)

Analyzed == pc = "analyzeStorageCleanup" /\ analysis # <<>>

\* the recommendations of a type
OfType(type) ==
  SelectSeq(analysis[1].recommendations, LAMBDA rec : rec.type = type)

\* the ids, in order, of the classifications at the positions in S
IdsAt(S) ==
  LET at == SelectSeq([j \in 1..Len(classifications) |-> j], LAMBDA j : j \in S)
  IN  [k \in 1..Len(at) |-> classifications[at[k]].blobId]

\* one recommendation of the type, with the impact and exactly the ids at
\* S, when S is not empty, and none of the type when it is
Recommends(type, impact, S) ==
  IF S = {} THEN OfType(type) = <<>>
  ELSE OfType(type) = <<[type |-> type, impact |-> impact, blobIds |-> IdsAt(S)]>>

\* C23: generateRecommendations gives, each only when its set is not
\* empty, an immediate/High recommendation listing exactly the
\* classifications whose deleteReason is the expiry reason, a
\* suggested/Medium one listing exactly the low-importance classifications
\* whose deleteReason is the age reason, and a review/High one listing
\* exactly the classifications above 50 MiB that are neither website nor
\* critical; there is no other recommendation, and canDelete and
\* importance stay as the classifier returned them.
C23_Recommendations ==
  Analyzed =>
    /\ Recommends("immediate", "High",
                  {j \in 1..Len(classifications) : classifications[j].deleteReason = <<"Blob has expired">>})
    /\ Recommends("suggested", "Medium",
                  {j \in 1..Len(classifications) :
                     /\ classifications[j].importance = "low"
                     /\ classifications[j].deleteReason = <<"Low importance and older than 1 year">>})
    /\ Recommends("review", "High",
                  {j \in 1..Len(classifications) :
                     /\ classifications[j].sizeBytes > 50 * 1024 * 1024
                     /\ classifications[j].category # "website"
                     /\ classifications[j].importance # "critical"})
    /\ \A k \in 1..Len(analysis[1].recommendations) :
         analysis[1].recommendations[k].type \in {"immediate", "suggested", "review"}
    /\ classifications = classifyBlobs(blobs, store, fates, now)

\* An analysis with an expired image and a large recent image: an immediate
\* and a review recommendation, and no suggested one.
C23_Witness ==
  /\ Analyzed
  /\ Len(classifications) = 2
  /\ Len(OfType("immediate")) = 1 /\ OfType("immediate")[1].blobIds = <<1>>
  /\ Len(OfType("review")) = 1 /\ OfType("review")[1].blobIds = <<2>>
  /\ OfType("suggested") = <<>>

-----------------------------------------------------------------------------
(* The kinds of deletable classifications, under SpecClassify; the         *)
(* formulas read every classification and every target of a plan, so they  *)
(* apply to the batches of SpecPlan as well, where the clock stands still. *)

\* the blob a classification was made of
BlobOf(c) == blobs[c.blobId]

\* the age of a blob in whole days at clock t
AgeAt(blob, t) ==
  IF blob.createdEpoch = Undefined THEN 0
  ELSE Ceil(Abs(t - blob.createdEpoch * TicksPerDay), TicksPerDay)

\* the clock read the same in determineImportance, canSafelyDelete and getDeleteReason
SteadyClock == \A k \in 1..Len(fates) : fates[k].tick2 = 0 /\ fates[k].tick3 = 0

ExpiredKind(c) ==
  /\ BlobOf(c).isExpired
  /\ c.importance = "disposable"
  /\ c.deleteReason = <<"Blob has expired">>

AgedKind(c) ==
  /\ ~BlobOf(c).isExpired
  /\ c.importance = "low"
  /\ AgeAt(BlobOf(c), now) > OneYear
  /\ c.deleteReason = <<"Low importance and older than 1 year">>

\* the classifications the plan targets
PlanTargets ==
  IF plan = <<>> THEN {}
  ELSE {j \in 1..Len(classifications) :
          \E i \in 1..Len(plan[1].blobsToDelete) : plan[1].blobsToDelete[i] = classifications[j].blobId}

TwoKinds ==
  /\ \A j \in 1..Len(classifications) :
       /\ classifications[j].canDelete => ExpiredKind(classifications[j]) \/ AgedKind(classifications[j])
       /\ classifications[j].deleteReason \notin
            {<<"Marked as disposable">>, <<"Safe to delete based on analysis">>}
  /\ \A j \in PlanTargets : classifications[j].importance \notin {"normal", "important", "critical"}

C25_NeverCritical ==
  Classified =>
    /\ classifications[1].importance # "critical"
    /\ store[1] # <<>> =>
         \A k \in 1..Len(SiteAnalysis.siteInfo) : SiteAnalysis.siteInfo[k].domain = <<>>

\* A non-expired archive with an index page, declared a site, fetched and
\* recognized: important, not critical.
C25_Witness ==
  /\ Classified /\ ~blobs[1].isExpired /\ SiteRecognized
  /\ store[1][1].zip
  /\ SiteAnalysis.siteInfo[1].hasIndexHtml
  /\ classifications[1].importance = "important"

-----------------------------------------------------------------------------
(* The gate and the analysis of archives, under SpecSite. *)

\* C26: whenever isZipBasedSite accepts an archive, the descriptor that
\* analyzeZipSite produces for the same bytes has hasIndexHtml = true and
\* isFileDirectory = false, whatever the entry names are.
C26_GateAgreesWithAnalysis ==
  Detected /\ isZipBasedSite(siteContent[1]) =>
    \A k \in 1..Len(analyzeZipSite(siteContent[1], 1)) :
      /\ analyzeZipSite(siteContent[1], 1)[k].hasIndexHtml
      /\ ~analyzeZipSite(siteContent[1], 1)[k].isFileDirectory

-----------------------------------------------------------------------------
(* The two reference lookups of one classifyBlob call, under SpecClassify. *)

\* C27: for every non-expired blob whose category is not website, the
\* returned importance is important if and only if the returned referencedBy
\* is non-empty, however the reference source changes or fails between the
\* lookup that decides importance and the lookup that fills referencedBy.
C27_LookupsConsistent ==
  Classified /\ ~blobs[1].isExpired /\ classifications[1].category # "website" =>
    (classifications[1].importance = "important"
       <=> classifications[1].referencedBy # <<>>)

-----------------------------------------------------------------------------
(* Deleting one blob and executing a plan, under SpecExecute. *)

SafelyDone == pc = "deleteBlobSafely" /\ returned # <<>>

\* the blob on which deleteBlobSafely was called
SafelyTarget == calls[1].deleteBlobSafely[1]

\* the blob answers the network's HEAD request
OnNetwork(blobId, att) == store[blobId] # <<>> /\ att.info = "ok"

\* the wallet lists the blob as created with the deletable flag
CreatedDeletable(blobId) == blobs[blobId].isDeletable = "true"

\* what the reference lookup of the call returns for the blob
StillReferenced(blobId, att) ==
  Len(getBlobsReferencedBy(store, blobId, att.readRef, att.exists)) > 0

\* C28: for a blob that exists on the network, was created with the deletable
\* flag, is referenced by nothing and whose delete command exits with 0,
\* deleteBlobSafely invokes the deletion and returns true; it returns false
\* without invoking the deletion when the blob is not found, is not
\* deletable, or still has references.
C28_SafeDeletionSucceeds ==
  SafelyDone =>
    /\ ( /\ OnNetwork(SafelyTarget, attempts[1])
         /\ CreatedDeletable(SafelyTarget)
         /\ ~StillReferenced(SafelyTarget, attempts[1])
         /\ attempts[1].exit = "zero"
         => returned[1] /\ calls[1].deleteBlob = <<SafelyTarget>> )
    /\ ( \/ ~OnNetwork(SafelyTarget, attempts[1])
         \/ ~CreatedDeletable(SafelyTarget)
         \/ StillReferenced(SafelyTarget, attempts[1])
         => ~returned[1] /\ calls[1].deleteBlob = <<>> )

ExecuteDone == pc = "executeDeletionPlan"

\* the blob ids recorded in failed, in order
FailedIds == [i \in 1..Len(result[1].failed) |-> result[1].failed[i].blobId]

\* the targets of the plan that are in list, in plan order
InPlanOrder(list) ==
  list = SelectSeq(plan[1].blobsToDelete, LAMBDA blobId : blobId \in Range(list))

\* C29: executeDeletionPlan returns a result, and in it each id of
\* plan.blobsToDelete is in exactly one of successful, failed and skipped,
\* each in plan order; an id is skipped exactly when the callback returned
\* false for it, and no deletion is attempted for it; totalDeleted is the
\* length of successful; an id whose callback or deletion raised is in
\* failed, and the ids after it are processed.
C29_EveryTargetAccounted ==
  ExecuteDone =>
    /\ result # <<>>
    /\ \A i \in 1..Len(plan[1].blobsToDelete) :
         LET blobId == plan[1].blobsToDelete[i]
         IN  /\ Cardinality({list \in {"successful", "failed", "skipped"} :
                               blobId \in Range(IF list = "successful" THEN result[1].successful
                                                ELSE IF list = "failed" THEN FailedIds
                                                ELSE result[1].skipped)}) = 1
             /\ blobId \in Range(result[1].skipped) <=> attempts[i].confirm = "false"
             /\ attempts[i].confirm = "throw" => blobId \in Range(FailedIds)
             /\ attempts[i].info = "error" \/ attempts[i].exit = "nonzero" => blobId \in Range(FailedIds)
    /\ Len(result[1].successful) + Len(FailedIds) + Len(result[1].skipped) = Len(plan[1].blobsToDelete)
    /\ InPlanOrder(result[1].successful) /\ InPlanOrder(FailedIds) /\ InPlanOrder(result[1].skipped)
    /\ Range(result[1].skipped) \cap Range(calls[1].deleteBlobSafely) = {}
    /\ Range(result[1].skipped) \cap Range(calls[1].deleteBlob) = {}
    /\ result[1].totalDeleted = Len(result[1].successful)

\* A plan of two targets has been executed: the callback raised for the first,
\* which is in failed, and returned false for the second, which is skipped.
C29_Witness ==
  /\ ExecuteDone
  /\ plan[1].blobsToDelete = <<1, 2>>
  /\ attempts[1].confirm = "throw" /\ attempts[2].confirm = "false"
  /\ FailedIds = <<1>>
  /\ result[1].skipped = <<2>>
  /\ calls[1].deleteBlobSafely = <<>>

-----------------------------------------------------------------------------
(* The two categorizers, under SpecCategorize. *)

Summarized == pc = "getWalletBlobSummaryFromBlobs" /\ summary # <<>>

\* the listed blobs to which the classifier's content-type rules give category
ClassifierCount(category) ==
  Cardinality({i \in 1..Len(blobs) : categorizeFromContentType(blobs[i].contentType) = category})

\* C30: for blobs with a declared content type, the category counted in the
\* wallet summary, and its websites total, is the category that
\* categorizeFromContentType assigns to the same content type.
C30_CategorizersAgree ==
  Summarized /\ (\A i \in 1..Len(blobs) : blobs[i].contentType # <<>>) =>
    /\ \A category \in Categories : summary[1].categories[category] = ClassifierCount(category)
    /\ summary[1].websites = ClassifierCount("website")

====
